---- MODULE Spec2Model ----
(***************************************************************************)
(* A model of the npm virtual file system (src/src/ataSys.ts) and of the   *)
(* FunctionBroadcastChannel it fetches through                             *)
(* (src/src/functionBroadcastChannel.ts).                                  *)
(*                                                                         *)
(* A JavaScript string is a sequence of TLA+ strings.  Paths and package   *)
(* names are written one character per element, so that split, slice,      *)
(* lastIndexOf, startsWith ... are computed as the code computes them;     *)
(* texts nothing looks inside of (function names, error messages, file     *)
(* contents) are a single element.  String indices are JavaScript's        *)
(* (0-based); sequences are 1-based.                                       *)
(***************************************************************************)
EXTENDS Integers, Sequences, FiniteSets, TLC

(***************************************************************************)
(* JavaScript values and string primitives                                 *)
(***************************************************************************)

\* the value `undefined` where a string may stand (never equal to a path)
undefined == << "undefined" >>

\* !s for s: string | undefined
Falsy(s) == s = undefined \/ s = << >>

Min2(a, b) == IF a < b THEN a ELSE b
Max2(a, b) == IF a > b THEN a ELSE b

\* s.slice(n), n >= 0
Slice(s, n) == SubSeq(s, n + 1, Len(s))

\* s.substring(a, b): arguments are clamped to [0, length] and swapped when a > b
Substring(s, a, b) ==
    LET ca == Max2(0, Min2(a, Len(s)))
        cb == Max2(0, Min2(b, Len(s)))
    IN  SubSeq(s, Min2(ca, cb) + 1, Max2(ca, cb))

StartsWith(s, p) == Len(p) <= Len(s) /\ SubSeq(s, 1, Len(p)) = p

EndsWith(s, p) == Len(p) <= Len(s) /\ SubSeq(s, Len(s) - Len(p) + 1, Len(s)) = p

\* s.lastIndexOf(c) for a one-character c; -1 when there is none
LastIndexOf(s, c) ==
    LET hits == { i \in 1..Len(s) : s[i] = c }
    IN  IF hits = {} THEN -1 ELSE (CHOOSE i \in hits : \A j \in hits : j <= i) - 1

\* s.indexOf(p); -1 when there is none
IndexOf(s, p) ==
    LET hits == { i \in 1..(Len(s) - Len(p) + 1) : SubSeq(s, i, i + Len(p) - 1) = p }
    IN  IF hits = {} THEN -1 ELSE (CHOOSE i \in hits : \A j \in hits : i <= j) - 1

\* s.replace(p, r) with a string pattern: the first occurrence only
Replace(s, p, r) ==
    LET i == IndexOf(s, p)
    IN  IF i < 0 THEN s ELSE SubSeq(s, 1, i) \o r \o Slice(s, i + Len(p))

\* s.split(c) for a one-character c
RECURSIVE Split(_, _)
Split(s, c) ==
    LET hits == { i \in 1..Len(s) : s[i] = c }
    IN  IF hits = {} THEN << s >>
        ELSE LET i == CHOOSE k \in hits : \A j \in hits : k <= j
             IN  << SubSeq(s, 1, i - 1) >> \o Split(SubSeq(s, i + 1, Len(s)), c)

\* parts.join(c)
RECURSIVE Join(_, _)
Join(parts, c) ==
    IF parts = << >> THEN << >>
    ELSE IF Len(parts) = 1 THEN parts[1]
    ELSE parts[1] \o << c >> \o Join(Tail(parts), c)

\* [...new Set(xs)]: the first occurrence of each element, in order
RECURSIVE Dedup(_)
Dedup(xs) ==
    IF xs = << >> THEN << >>
    ELSE LET r == Dedup(SubSeq(xs, 1, Len(xs) - 1))
             x == xs[Len(xs)]
         IN  IF \E i \in 1..Len(r) : r[i] = x THEN r ELSE Append(r, x)

\* xs.filter(P)
FilterSeq(xs, P(_)) == SelectSeq(xs, P)

\* xs.map(F)
MapSeq(xs, F(_)) == [ i \in 1..Len(xs) |-> F(xs[i]) ]


\* JavaScript values that travel in messages and settle promises, tagged by type
JUndef == [t |-> "undefined"]
JStr(s) == [t |-> "string", v |-> s]
JBool(b) == [t |-> "boolean", v |-> b]
JObj(o) == [t |-> "object", v |-> o]
JErr(message) == [t |-> "Error", v |-> message]

\* the truthiness of a value (if (v), !v)
Truthy(x) ==
    CASE x.t = "undefined" -> FALSE
      [] x.t = "boolean" -> x.v
      [] x.t = "string" -> x.v # << >>
      [] OTHER -> TRUE

\* String(x), as template literals and new Error(x) compute it
ToStr(x) ==
    CASE x.t = "undefined" -> << "undefined" >>
      [] x.t = "string" -> x.v
      [] x.t = "boolean" -> IF x.v THEN << "true" >> ELSE << "false" >>
      [] OTHER -> << "[object Object]" >>

\* o[f] for a plain object: a missing property reads as undefined
Get(o, f) == IF f \in DOMAIN o THEN o[f] ELSE JUndef

\* JSON.stringify(obj): properties whose value is undefined are left out
JSON_stringify(obj) ==
    [t |-> "json", v |-> [ f \in { g \in DOMAIN obj : obj[g].t # "undefined" } |-> obj[f] ]]

\* what a BroadcastChannel can deliver as e.data besides JSON text of an object
EmptyData == [t |-> "text", v |-> << >>]
GarbageData == [t |-> "text", v |-> << "not json" >>]

(***************************************************************************)
(* ataSys.ts: the computations between the awaits                          *)
(***************************************************************************)

\* the string literals of ataSys.ts, one character per element
S_at == << "@" >>
S_slash == << "/" >>
S_node_modules == << "/", "n", "o", "d", "e", "_", "m", "o", "d", "u", "l", "e", "s" >>
S_dts == << ".", "d", ".", "t", "s" >>
S_typescriptScope == << "@", "t", "y", "p", "e", "s", "c", "r", "i", "p", "t", "/" >>
S_typesTypescript == << "@", "t", "y", "p", "e", "s", "/", "t", "y", "p", "e", "s", "c", "r", "i", "p", "t", "_", "_" >>
S_types == << "@", "t", "y", "p", "e", "s", "/" >>
S_underscores == << "_", "_" >>
S_packageJson == << "/", "p", "a", "c", "k", "a", "g", "e", ".", "j", "s", "o", "n" >>
S_indexDts == << "/", "i", "n", "d", "e", "x", ".", "d", ".", "t", "s" >>
S_typescript == << "t", "y", "p", "e", "s", "c", "r", "i", "p", "t" >>
S_vue == << "v", "u", "e" >>
S_typescriptLib == << "t", "y", "p", "e", "s", "c", "r", "i", "p", "t", "/", "l", "i", "b", "/" >>
S_dotSlash == << ".", "/" >>

\* FileType.File, FileType.Directory
File == 1
Directory == 2

\* the default getCdnPath (lines 16-22), applied to uri.path
getCdnPath(uriPath) ==
    IF uriPath = S_node_modules THEN << >>
    ELSE IF StartsWith(uriPath, S_node_modules \o S_slash)
         THEN Slice(uriPath, Len(S_node_modules \o S_slash))
         ELSE undefined

\* resolvePackageName(input) (lines 209-238).  createNpmFileSystem is called with
\* its defaults, so there is no getPackageVersion to call at line 235.
resolvePackageNameFirstAt(input) ==
    LET parts == Split(input, "/")
        scoped == StartsWith(parts[1], S_at)
        modName == IF scoped THEN parts[1] \o S_slash \o parts[2] ELSE parts[1]
        path == Join(SubSeq(parts, IF scoped THEN 3 ELSE 2, Len(parts)), "/")
        at == IndexOf(Slice(modName, 1), S_at) + 1
    IN  IF scoped /\ (Len(parts) < 2 \/ parts[2] = << >>)
        THEN [modName |-> parts[1], pkgName |-> undefined, version |-> undefined, path |-> << >>]
        ELSE IF at >= 1
        THEN [modName |-> modName, pkgName |-> Substring(modName, 0, at),
              version |-> Slice(modName, at + 1), path |-> path]
        ELSE [modName |-> modName, pkgName |-> modName, version |-> undefined, path |-> path]
resolvePackageName(input) ==
    LET parts == Split(input, "/")
        scoped == StartsWith(parts[1], S_at)
        modName == IF scoped THEN parts[1] \o S_slash \o parts[2] ELSE parts[1]
        path == Join(SubSeq(parts, IF scoped THEN 3 ELSE 2, Len(parts)), "/")
        at == LastIndexOf(modName, "@")
    IN  IF scoped /\ (Len(parts) < 2 \/ parts[2] = << >>)
        THEN [modName |-> parts[1], pkgName |-> undefined, version |-> undefined, path |-> << >>]
        ELSE IF at >= 1
        THEN [modName |-> modName, pkgName |-> Substring(modName, 0, at),
              version |-> Slice(modName, at + 1), path |-> path]
        ELSE [modName |-> modName, pkgName |-> modName, version |-> undefined, path |-> path]

\* lines 180-186 of isValidPackageName: the names rejected without looking further
IsExcludedName(pkgName) ==
    \/ EndsWith(pkgName, S_node_modules)
    \/ EndsWith(pkgName, S_dts)
    \/ StartsWith(pkgName, S_typescriptScope)
    \/ StartsWith(pkgName, S_typesTypescript)

\* lines 189-192: the package an '@types/...' package describes
OriginalPkgName(pkgName) ==
    LET originalPkgName == Slice(pkgName, Len(S_types))
    IN  IF IndexOf(originalPkgName, S_underscores) >= 0
        THEN S_at \o Replace(originalPkgName, S_underscores, S_slash)
        ELSE originalPkgName

\* new Date(time).valueOf() for the time strings of the listings of this model
DateValueOf(time) ==
    CASE time = << "1970-01-01T00:00:01.000Z" >> -> 1000
      [] time = << "1970-01-01T00:00:02.000Z" >> -> 2000

DirectoryStat == [t |-> "stat", v |-> [type |-> Directory, ctime |-> -1, mtime |-> -1, size |-> -1]]
FileStat(file) ==
    [t |-> "stat", v |-> [type |-> File, ctime |-> DateValueOf(file.time),
                          mtime |-> DateValueOf(file.time), size |-> file.size]]

\* result?.type === 1 for the outcome of _stat
IsFileStat(x) == x.t = "stat" /\ x.v.type = File

\* lines 99-116 of _stat: the descriptor of `path` in the listing flatResult
StatInListingNoDirectories(flatResult, path, modName) ==
    LET filePath == Slice(path, Len(modName))
        found == { i \in 1..Len(flatResult) : flatResult[i].name = filePath }
    IN  IF found # {}
        THEN FileStat(flatResult[CHOOSE i \in found : \A j \in found : i <= j])
        ELSE JUndef
StatInListing(flatResult, path, modName) ==
    LET filePath == Slice(path, Len(modName))
        found == { i \in 1..Len(flatResult) : flatResult[i].name = filePath }
    IN  IF found # {}
        THEN FileStat(flatResult[CHOOSE i \in found : \A j \in found : i <= j])
        ELSE IF \E i \in 1..Len(flatResult) : StartsWith(flatResult[i].name, filePath \o S_slash)
             THEN DirectoryStat
             ELSE JUndef

\* lines 130-141 of _readDirectory: the [name, type] pairs under `path`
ReadDirectoryInListingNoDedup(flatResult, path, modName) ==
    LET dirPath == Slice(path, Len(modName))
        IsFileHere(f) == Substring(f.name, 0, LastIndexOf(f.name, "/")) = dirPath
        FileName(f) == Slice(f.name, Len(dirPath) + 1)
        IsBelow(f) == /\ StartsWith(f.name, dirPath \o S_slash)
                      /\ Len(Split(Substring(f.name, Len(dirPath) + 1, Len(f.name)), "/")) >= 2
        DirName(f) == Split(Slice(f.name, Len(dirPath) + 1), "/")[1]
        files == MapSeq(FilterSeq(flatResult, IsFileHere), FileName)
        dirs == MapSeq(FilterSeq(flatResult, IsBelow), DirName)
    IN  [ i \in 1..Len(files) |-> << files[i], File >> ]
        \o [ i \in 1..Len(dirs) |-> << dirs[i], Directory >> ]
ReadDirectoryInListing(flatResult, path, modName) ==
    LET dirPath == Slice(path, Len(modName))
        IsFileHere(f) == Substring(f.name, 0, LastIndexOf(f.name, "/")) = dirPath
        FileName(f) == Slice(f.name, Len(dirPath) + 1)
        IsBelow(f) == /\ StartsWith(f.name, dirPath \o S_slash)
                      /\ Len(Split(Substring(f.name, Len(dirPath) + 1, Len(f.name)), "/")) >= 2
        DirName(f) == Split(Slice(f.name, Len(dirPath) + 1), "/")[1]
        files == MapSeq(FilterSeq(flatResult, IsFileHere), FileName)
        dirs == Dedup(MapSeq(FilterSeq(flatResult, IsBelow), DirName))
    IN  [ i \in 1..Len(files) |-> << files[i], File >> ]
        \o [ i \in 1..Len(dirs) |-> << dirs[i], Directory >> ]

\* JSON.parse(packageJson) for the package.json texts of this model, as far as
\* line 198 reads it: the properties types and typings, or "throws"
EmptyObjectText == << "{}" >>
TypesText == << "{\"types\":\"index.d.ts\"}" >>
TypingsText == << "{\"typings\":\"index.d.ts\"}" >>
EmptyTypesText == << "{\"types\":\"\"}" >>
NotJsonText == << "<html>not found</html>" >>
JSON_parse(text) ==
    CASE text = EmptyObjectText -> JObj(<< >>)
      [] text = TypesText -> JObj([types |-> JStr(<< "index.d.ts" >>)])
      [] text = TypingsText -> JObj([typings |-> JStr(<< "index.d.ts" >>)])
      [] text = EmptyTypesText -> JObj([types |-> JStr(<< >>)])
      [] OTHER -> JErr(<< "SyntaxError" >>)

(***************************************************************************)
(* Bounds of the model                                                     *)
(***************************************************************************)

\* broadcast.execute calls made in one behaviour
MaxCalls == 1
\* close() calls made in one behaviour
MaxCloses == 1

\* the execution contexts sharing the channel id: the page ataSys.ts runs in, which
\* makes the execute calls, and two other contexts that may answer them
Client == "page"
Ctx == { Client, "host1", "host2" }

(***************************************************************************)
(* State                                                                   *)
(***************************************************************************)
VARIABLES
    channel,      \* [Ctx -> BOOLEAN]: _broadcastChannel != null
    functions,    \* [Ctx -> set of names]: the own properties of _functions
    callbacks,    \* [Ctx -> set of call numbers]: the keys of _callbacks
    calls,        \* every execute call made so far; calls[i] made with uid UidOf(i)
    inbox,        \* [Ctx -> Seq(data)]: messages posted to a context, not yet delivered
    jobs,         \* registered functions invoked by _onMessage and not yet settled
    closes,       \* number of close() calls made
    tasks,        \* every async function invocation of ataSys.ts made so far
    ready,        \* the microtask queue: tasks whose awaited promise has settled
    flatResults,  \* Map modName -> task (promise) of flat(pkgName)
    fetchResults, \* Map path -> task of the stat-then-fetch step of _readFile
    textCache,    \* Map path -> task fetching the text
    jsonCache,    \* Map pkgName -> task fetching the listing
    exts          \* the import() and fetch() promises of the platform made so far

vars == << channel, functions, callbacks, calls, inbox, jobs, closes,
           tasks, ready, flatResults, fetchResults, textCache, jsonCache, exts >>

\* the state as one record, so that the code's functions are operators on it
World ==
    [ channel |-> channel, functions |-> functions, callbacks |-> callbacks,
      calls |-> calls, inbox |-> inbox, jobs |-> jobs, closes |-> closes,
      tasks |-> tasks, ready |-> ready, flatResults |-> flatResults,
      fetchResults |-> fetchResults, textCache |-> textCache, jsonCache |-> jsonCache,
      exts |-> exts ]

Becomes(w) ==
    /\ channel' = w.channel
    /\ functions' = w.functions
    /\ callbacks' = w.callbacks
    /\ calls' = w.calls
    /\ inbox' = w.inbox
    /\ jobs' = w.jobs
    /\ closes' = w.closes
    /\ tasks' = w.tasks
    /\ ready' = w.ready
    /\ flatResults' = w.flatResults
    /\ fetchResults' = w.fetchResults
    /\ textCache' = w.textCache
    /\ jsonCache' = w.jsonCache
    /\ exts' = w.exts


(***************************************************************************)
(* Promises and the microtask queue                                        *)
(***************************************************************************)

NoWait == [k |-> "none", id |-> 0]
OnTask(i) == [k |-> "task", id |-> i]
OnCall(i) == [k |-> "call", id |-> i]
OnExt(i) == [k |-> "ext", id |-> i]

\* the tasks suspended in an await of promise p, in the order they were created
RECURSIVE Awaiting(_, _, _)
Awaiting(ts, p, i) ==
    IF i > Len(ts) THEN << >>
    ELSE (IF ts[i].state = "running" /\ ts[i].wait = p THEN << i >> ELSE << >>)
         \o Awaiting(ts, p, i + 1)

(***************************************************************************)
(* FunctionBroadcastChannel                                                *)
(***************************************************************************)

\* the function names ataSys.ts executes on the channel
getTypes == << "getTypes" >>
getTypesFlat == << "getTypesFlat" >>

\* crypto.randomUUID() of the i-th execute call: fresh for every call
UidOf(i) == << "uuid", ToString(i) >>

\* names that `typeof this._functions[name] === 'function'` accepts although nobody
\* registered them: _functions is an ordinary object ({}), so a property lookup
\* reaches the functions of Object.prototype
ObjectPrototypeFunctions ==
    { << "constructor" >>, << "hasOwnProperty" >>, << "isPrototypeOf" >>,
      << "propertyIsEnumerable" >>, << "toLocaleString" >>, << "toString" >>,
      << "valueOf" >> }

\* typeof this._functions[name] === 'function'
IsFunction(w, c, name) ==
    name.t = "string" /\ (name.v \in w.functions[c] \/ name.v \in ObjectPrototypeFunctions)

\* this._broadcastChannel.postMessage(data): queued for every other open channel
\* object with the same id, never for the posting one
PostMessage(w, c, data) ==
    [w EXCEPT !.inbox = [ d \in Ctx |->
        IF d # c /\ w.channel[d] THEN Append(w.inbox[d], data) ELSE w.inbox[d] ]]

\* promiseRes / promiseRej of call i: only the first invocation settles the promise
SettleCall(w, i, state, value) ==
    IF w.calls[i].state = "pending"
    THEN [w EXCEPT !.calls[i].state = state, !.calls[i].value = value,
                   !.calls[i].settles = @ + 1,
                   !.ready = @ \o Awaiting(w.tasks, OnCall(i), 1)]
    ELSE [w EXCEPT !.calls[i].settles = @ + 1]

\* delete this._callbacks[uid]; calls[i].removed counts the deletions that removed an entry
DeleteCallback(w, i) ==
    LET c == w.calls[i].ctx
    IN  IF i \in w.callbacks[c]
        THEN [w EXCEPT !.callbacks[c] = @ \ {i}, !.calls[i].removed = @ + 1]
        ELSE w

\* window.clearTimeout(timeoutDebounce)
ClearTimeout(w, i) ==
    IF w.calls[i].timer = "armed" THEN [w EXCEPT !.calls[i].timer = "cleared"] ELSE w

RecievedFailedStatus == << "Recieved failed status" >>
BroadcastChannelTimeout == << "Broadcast Channel timeout" >>
CouldNotExecute == << "Could not execute function with name: " >>

\* the closure stored in this._callbacks[uid] (lines 77-85)
CallbackNoClear(w, i, success, result) ==
    LET w2 == DeleteCallback(w, i)
    IN  IF ~Truthy(success)
        THEN SettleCall(w2, i, "rejected",
                 JErr(IF result.t = "undefined" THEN RecievedFailedStatus ELSE ToStr(result)))
        ELSE SettleCall(w2, i, "resolved", result)
Callback(w, i, success, result) ==
    LET w1 == ClearTimeout(w, i)
        w2 == DeleteCallback(w1, i)
    IN  IF ~Truthy(success)
        THEN SettleCall(w2, i, "rejected",
                 JErr(IF result.t = "undefined" THEN RecievedFailedStatus ELSE ToStr(result)))
        ELSE SettleCall(w2, i, "resolved", result)

\* the handler given to window.setTimeout (lines 73-76)
TimeoutHandlerKeepsEntry(w, i) ==
    SettleCall([w EXCEPT !.calls[i].timer = "fired"], i, "rejected",
               JErr(BroadcastChannelTimeout))
TimeoutHandler(w, i) ==
    SettleCall(DeleteCallback([w EXCEPT !.calls[i].timer = "fired"], i), i, "rejected",
               JErr(BroadcastChannelTimeout))

\* a variant of execute that arms no timer
executeNoTimer(w, c, name, argument) ==
    IF ~w.channel[c] THEN w
    ELSE LET i == Len(w.calls) + 1
             messageObject ==
                 [ operation |-> JStr(<< "execute" >>), name |-> JStr(name),
                   payload |-> argument, meta |-> JObj([uid |-> JStr(UidOf(i))]) ]
             w1 == [w EXCEPT
                      !.calls = Append(@, [ ctx |-> c, name |-> name, argument |-> argument,
                                            timer |-> "cleared", state |-> "pending",
                                            value |-> JUndef, settles |-> 0, removed |-> 0,
                                            dropped |-> 0 ]),
                      !.callbacks[c] = @ \cup {i} ]
         IN  PostMessage(w1, c, JSON_stringify(messageObject))

\* execute(name, argument) on the channel object of context c (lines 56-89).
\* With the channel closed the call does nothing and yields undefined.
execute(w, c, name, argument) ==
    IF ~w.channel[c] THEN w
    ELSE LET i == Len(w.calls) + 1
             messageObject ==
                 [ operation |-> JStr(<< "execute" >>), name |-> JStr(name),
                   payload |-> argument, meta |-> JObj([uid |-> JStr(UidOf(i))]) ]
             w1 == [w EXCEPT
                      !.calls = Append(@, [ ctx |-> c, name |-> name, argument |-> argument,
                                            timer |-> "armed", state |-> "pending",
                                            value |-> JUndef, settles |-> 0, removed |-> 0,
                                            dropped |-> 0 ]),
                      !.callbacks[c] = @ \cup {i} ]
         IN  PostMessage(w1, c, JSON_stringify(messageObject))

\* the callback message _onMessage posts for an execute request
ResponseObject(c, messageObject, success, result) ==
    [ operation |-> JStr(<< "callback" >>), payload |-> result, success |-> JBool(success),
      meta |-> JObj([ uid |-> Get(Get(messageObject, "meta").v, "uid"),
                      broadcaster |-> JStr(<< "href", c >>) ]) ]

\* messageObject.meta.uid throws a TypeError when the message has no meta object
HasMeta(messageObject) == Get(messageObject, "meta").t = "object"

\* case 'execute' of _onMessage (lines 108-135)
OnExecute(w, c, messageObject) ==
    LET name == Get(messageObject, "name")
    IN  IF Truthy(name) /\ IsFunction(w, c, name)
        THEN \* line 110: the function runs; the handler is suspended in its await
             [w EXCEPT !.jobs = @ \cup {[ ctx |-> c, own |-> name.v \in w.functions[c],
                                          message |-> messageObject ]}]
        ELSE LET result == CouldNotExecute \o ToStr(name)
             IN  IF ~HasMeta(messageObject) THEN w
                 ELSE IF ~w.channel[c] THEN w
                 ELSE PostMessage(w, c, JSON_stringify(
                          ResponseObject(c, messageObject, FALSE, JStr(result))))

\* case 'callback' of _onMessage (lines 136-142).  The only own properties of
\* _callbacks are the uids of pending calls; a key found on Object.prototype
\* instead is invoked without touching the channel's state.
\* calls[i].dropped counts the callbacks for call i that found no entry.
OnCallback(w, c, messageObject) ==
    IF ~HasMeta(messageObject) THEN w
    ELSE LET uid == Get(Get(messageObject, "meta").v, "uid")
             hit == { i \in w.callbacks[c] : JStr(UidOf(i)) = uid }
             late == { i \in 1..Len(w.calls) : w.calls[i].ctx = c /\ JStr(UidOf(i)) = uid }
         IN  IF hit = {}
             THEN [w EXCEPT !.calls = [ i \in 1..Len(w.calls) |->
                      IF i \in late THEN [w.calls[i] EXCEPT !.dropped = @ + 1]
                      ELSE w.calls[i] ]]
             ELSE Callback(w, CHOOSE i \in hit : TRUE,
                           Get(messageObject, "success"), Get(messageObject, "payload"))

\* _onMessage(e) in context c (lines 100-144)
OnMessageDefaultCallback(w, c, data) ==
    IF data.t = "text" /\ data.v = << >> THEN w
    ELSE IF data.t # "json" THEN w
    ELSE LET messageObject == data.v
             operation == Get(messageObject, "operation")
         IN  CASE operation = JStr(<< "execute" >>) -> OnExecute(w, c, messageObject)
               [] OTHER -> OnCallback(w, c, messageObject)
OnMessage(w, c, data) ==
    IF data.t = "text" /\ data.v = << >> THEN w        \* !message: warn and return
    ELSE IF data.t # "json" THEN w                     \* JSON.parse throws
    ELSE LET messageObject == data.v
             operation == Get(messageObject, "operation")
         IN  CASE operation = JStr(<< "execute" >>) -> OnExecute(w, c, messageObject)
               [] operation = JStr(<< "callback" >>) -> OnCallback(w, c, messageObject)
               [] OTHER -> w

\* line 110-120: the invoked function has fulfilled with `result`
AfterFunction(w, job, result) ==
    LET w1 == [w EXCEPT !.jobs = @ \ {job}]
    IN  IF ~HasMeta(job.message) THEN w1
        ELSE IF ~w.channel[job.ctx] THEN w1       \* this._broadcastChannel?.postMessage
        ELSE PostMessage(w1, job.ctx, JSON_stringify(
                 ResponseObject(job.ctx, job.message, TRUE, result)))


(***************************************************************************)
(* ataSys.ts: the async functions                                          *)
(*                                                                         *)
(* A task is one invocation of an async function: its promise (state,      *)
(* value) and where it is suspended (pc, wait).  A call runs the callee    *)
(* synchronously up to its first await, as JavaScript does; a suspended    *)
(* task is resumed from the microtask queue once what it awaits settled.   *)
(***************************************************************************)

NewTask(w, fn, arg, by) ==
    [w EXCEPT !.tasks = Append(@, [ fn |-> fn, arg |-> arg, by |-> by, pc |-> "start",
                                    wait |-> NoWait, state |-> "running", value |-> JUndef ])]

\* return value / throw err in task id: its promise settles, its awaiters are queued
Return(w, id, value) ==
    [w EXCEPT !.tasks[id].state = "fulfilled", !.tasks[id].value = value,
              !.tasks[id].wait = NoWait,
              !.ready = @ \o Awaiting(w.tasks, OnTask(id), 1)]
Throw(w, id, err) ==
    [w EXCEPT !.tasks[id].state = "rejected", !.tasks[id].value = err,
              !.tasks[id].wait = NoWait,
              !.ready = @ \o Awaiting(w.tasks, OnTask(id), 1)]

\* the promise p as an await sees it: [state, value]
Outcome(w, p) ==
    CASE p.k = "task" -> [state |-> w.tasks[p.id].state, value |-> w.tasks[p.id].value]
      [] p.k = "call" -> [state |-> IF w.calls[p.id].state = "resolved" THEN "fulfilled"
                                    ELSE IF w.calls[p.id].state = "rejected" THEN "rejected"
                                    ELSE "running",
                          value |-> w.calls[p.id].value]
      [] p.k = "ext" -> [state |-> w.exts[p.id].state, value |-> w.exts[p.id].value]

\* `await p` in task id, to go on at pc: queued at once when p has settled already
Await(w, id, pc, p) ==
    [w EXCEPT !.tasks[id].pc = pc, !.tasks[id].wait = p,
              !.ready = IF Outcome(w, p).state # "running" THEN Append(@, id) ELSE @]

\* what the await that task id is suspended in yields
Awaited(w, id) == Outcome(w, w.tasks[id].wait)

\* import(...), fetch(...), res.text(): a promise the platform settles
NewExt(w, kind, arg) ==
    [w EXCEPT !.exts = Append(@, [kind |-> kind, arg |-> arg, state |-> "running",
                                  value |-> JUndef])]

\* map.set(key, task)
MapSet(map, key, id) == (key :> id) @@ map
MapHas(map, key) == key \in DOMAIN map

RECURSIVE Run(_, _)

\* f(arg) called by task `by`: the new task runs to its first await
Call(w, fn, arg, by) == Run(NewTask(w, fn, arg, by), Len(w.tasks) + 1)

\* await f(arg)
AwaitCall(w, id, pc, fn, arg) ==
    Await(Call(w, fn, arg, id), id, pc, OnTask(Len(w.tasks) + 1))

\* an await that yields a rejection ends the function: nothing in ataSys.ts catches
Rethrow(w, id) == Throw(w, id, Awaited(w, id).value)

TypeErrorOf(what) == JErr(<< "TypeError" >> \o what)

\* flatResults.has / set / get of lines 94-98 and 125-129, then the await
AwaitFlatByModule(w, id, r) ==
    LET callee == Len(w.tasks) + 1
        w1 == IF ~MapHas(w.flatResults, r.modName)
              THEN [Call(w, "flat", r.modName, id) EXCEPT
                       !.flatResults = MapSet(@, r.modName, callee)]
              ELSE w
    IN  Await(w1, id, "flat", OnTask(w1.flatResults[r.modName]))
AwaitFlatAlways(w, id, r) ==
    LET callee == Len(w.tasks) + 1
        w1 == [Call(w, "flat", r.pkgName, id) EXCEPT
                  !.flatResults = MapSet(@, r.modName, callee)]
    IN  Await(w1, id, "flat", OnTask(w1.flatResults[r.modName]))
AwaitFlat(w, id, r) ==
    LET callee == Len(w.tasks) + 1
        w1 == IF ~MapHas(w.flatResults, r.modName)
              THEN [Call(w, "flat", r.pkgName, id) EXCEPT
                       !.flatResults = MapSet(@, r.modName, callee)]
              ELSE w
    IN  Await(w1, id, "flat", OnTask(w1.flatResults[r.modName]))

\* stat(uri) of the returned FileSystem (lines 34-48)
stat(w, id) ==
    LET path == getCdnPath(w.tasks[id].arg)
    IN  CASE w.tasks[id].pc = "start" ->
               IF path = undefined THEN Return(w, id, JUndef)
               ELSE IF path = << >> THEN Return(w, id, DirectoryStat)
               ELSE AwaitCall(w, id, "_stat", "_stat", path)
          [] w.tasks[id].pc = "_stat" ->
               IF Awaited(w, id).state = "rejected" THEN Rethrow(w, id)
               ELSE Return(w, id, Awaited(w, id).value)

\* readFile(uri) (lines 49-55)
readFile(w, id) ==
    LET path == getCdnPath(w.tasks[id].arg)
    IN  CASE w.tasks[id].pc = "start" ->
               IF path = undefined THEN Return(w, id, JUndef)
               ELSE AwaitCall(w, id, "_readFile", "_readFile", path)
          [] w.tasks[id].pc = "_readFile" ->
               IF Awaited(w, id).state = "rejected" THEN Rethrow(w, id)
               ELSE Return(w, id, Awaited(w, id).value)

\* _stat(path) (lines 65-117)
stat_afterValidNoCheck(w, id) ==
    LET path == w.tasks[id].arg
        r == resolvePackageName(path)
    IN  IF Awaited(w, id).state = "rejected" THEN Rethrow(w, id)
        ELSE IF Falsy(r.path) THEN Return(w, id, DirectoryStat)
        ELSE AwaitFlat(w, id, r)
stat_afterValidNoSkip(w, id) ==
    LET path == w.tasks[id].arg
        r == resolvePackageName(path)
    IN  IF Awaited(w, id).state = "rejected" THEN Rethrow(w, id)
        ELSE IF ~Truthy(Awaited(w, id).value) THEN Return(w, id, JUndef)
        ELSE AwaitFlat(w, id, r)
stat_afterValid(w, id) ==
    LET path == w.tasks[id].arg
        r == resolvePackageName(path)
    IN  IF Awaited(w, id).state = "rejected" THEN Rethrow(w, id)
        ELSE IF ~Truthy(Awaited(w, id).value) THEN Return(w, id, JUndef)
        ELSE IF Falsy(r.path) THEN Return(w, id, DirectoryStat)     \* perf: skip flat request
        ELSE AwaitFlat(w, id, r)

stat_afterFlat(w, id) ==
    LET path == w.tasks[id].arg
        r == resolvePackageName(path)
        flatResult == Awaited(w, id).value
    IN  IF Awaited(w, id).state = "rejected" THEN Rethrow(w, id)
        ELSE IF flatResult.t # "array" THEN Throw(w, id, TypeErrorOf(<< "flatResult.find" >>))
        ELSE Return(w, id, StatInListing(flatResult.v, path, r.modName))

_stat(w, id) ==
    LET path == w.tasks[id].arg
        r == resolvePackageName(path)
    IN  CASE w.tasks[id].pc = "start" ->
               IF Falsy(r.pkgName)
               THEN IF StartsWith(r.modName, S_at) THEN Return(w, id, DirectoryStat)
                    ELSE Return(w, id, JUndef)
               ELSE AwaitCall(w, id, "valid", "isValidPackageName", r.pkgName)
          [] w.tasks[id].pc = "valid" -> stat_afterValid(w, id)
          [] w.tasks[id].pc = "flat" -> stat_afterFlat(w, id)

\* _readDirectory(path) (lines 119-142); readDirectory(uri) returns its promise
EmptyArray == [t |-> "array", v |-> << >>]

readDirectory_afterFlat(w, id) ==
    LET path == w.tasks[id].arg
        r == resolvePackageName(path)
        flatResult == Awaited(w, id).value
    IN  IF Awaited(w, id).state = "rejected" THEN Rethrow(w, id)
        ELSE IF flatResult.t # "array" THEN Throw(w, id, TypeErrorOf(<< "flatResult.filter" >>))
        ELSE Return(w, id, [t |-> "array",
                            v |-> ReadDirectoryInListing(flatResult.v, path, r.modName)])

_readDirectory(w, id) ==
    LET path == w.tasks[id].arg
        r == resolvePackageName(path)
    IN  CASE w.tasks[id].pc = "start" ->
               IF Falsy(r.pkgName) THEN Return(w, id, EmptyArray)
               ELSE AwaitCall(w, id, "valid", "isValidPackageName", r.pkgName)
          [] w.tasks[id].pc = "valid" ->
               IF Awaited(w, id).state = "rejected" THEN Rethrow(w, id)
               ELSE IF ~Truthy(Awaited(w, id).value) THEN Return(w, id, EmptyArray)
               ELSE AwaitFlat(w, id, r)
          [] w.tasks[id].pc = "flat" -> readDirectory_afterFlat(w, id)

\* _readFile(path) (lines 144-160)
_readFileNoMemo(w, id) ==
    LET path == w.tasks[id].arg
        r == resolvePackageName(path)
    IN  CASE w.tasks[id].pc = "start" ->
               IF Falsy(r.pkgName) \/ Falsy(r.path) THEN Return(w, id, JUndef)
               ELSE AwaitCall(w, id, "valid", "isValidPackageName", r.pkgName)
          [] w.tasks[id].pc = "valid" ->
               IF Awaited(w, id).state = "rejected" THEN Rethrow(w, id)
               ELSE IF ~Truthy(Awaited(w, id).value) THEN Return(w, id, JUndef)
               ELSE LET callee == Len(w.tasks) + 1
                        w1 == [Call(w, "statThenFetch", path, id) EXCEPT
                                 !.fetchResults = MapSet(@, path, callee)]
                    IN  Await(w1, id, "fetchResults", OnTask(w1.fetchResults[path]))
          [] w.tasks[id].pc = "fetchResults" ->
               IF Awaited(w, id).state = "rejected" THEN Rethrow(w, id)
               ELSE Return(w, id, Awaited(w, id).value)
_readFile(w, id) ==
    LET path == w.tasks[id].arg
        r == resolvePackageName(path)
    IN  CASE w.tasks[id].pc = "start" ->
               IF Falsy(r.pkgName) \/ Falsy(r.path) THEN Return(w, id, JUndef)
               ELSE AwaitCall(w, id, "valid", "isValidPackageName", r.pkgName)
          [] w.tasks[id].pc = "valid" ->
               IF Awaited(w, id).state = "rejected" THEN Rethrow(w, id)
               ELSE IF ~Truthy(Awaited(w, id).value) THEN Return(w, id, JUndef)
               ELSE LET callee == Len(w.tasks) + 1
                        w1 == IF ~MapHas(w.fetchResults, path)
                              THEN [Call(w, "statThenFetch", path, id) EXCEPT
                                       !.fetchResults = MapSet(@, path, callee)]
                              ELSE w
                    IN  Await(w1, id, "fetchResults", OnTask(w1.fetchResults[path]))
          [] w.tasks[id].pc = "fetchResults" ->
               IF Awaited(w, id).state = "rejected" THEN Rethrow(w, id)
               ELSE Return(w, id, Awaited(w, id).value)

\* a variant whose closure awaits _readFile(path), and so the promise that
\* fetchResults holds for path, instead of _stat(path)
statThenFetchReadsFile(w, id) ==
    LET path == w.tasks[id].arg
    IN  CASE w.tasks[id].pc = "start" -> AwaitCall(w, id, "_stat", "_readFile", path)
          [] w.tasks[id].pc = "_stat" ->
               IF Awaited(w, id).state = "rejected" THEN Rethrow(w, id)
               ELSE IF ~IsFileStat(Awaited(w, id).value) THEN Return(w, id, JUndef)
               ELSE AwaitCall(w, id, "fetchText", "fetchText", path)
          [] w.tasks[id].pc = "fetchText" ->
               IF Awaited(w, id).state = "rejected" THEN Rethrow(w, id)
               ELSE Return(w, id, Awaited(w, id).value)

\* the async function stored in fetchResults (lines 151-156)
statThenFetch(w, id) ==
    LET path == w.tasks[id].arg
    IN  CASE w.tasks[id].pc = "start" -> AwaitCall(w, id, "_stat", "_stat", path)
          [] w.tasks[id].pc = "_stat" ->
               IF Awaited(w, id).state = "rejected" THEN Rethrow(w, id)
               ELSE IF ~IsFileStat(Awaited(w, id).value) THEN Return(w, id, JUndef)
               ELSE AwaitCall(w, id, "fetchText", "fetchText", path)
          [] w.tasks[id].pc = "fetchText" ->
               IF Awaited(w, id).state = "rejected" THEN Rethrow(w, id)
               ELSE Return(w, id, Awaited(w, id).value)

\* flat(pkgName) (lines 162-177)
flat(w, id) ==
    LET pkgName == w.tasks[id].arg
        json == Awaited(w, id).value
    IN  CASE w.tasks[id].pc = "start" -> AwaitCall(w, id, "fetchJson", "fetchJson", pkgName)
          [] w.tasks[id].pc = "fetchJson" ->
               IF Awaited(w, id).state = "rejected" THEN Rethrow(w, id)
               ELSE IF ~Truthy(json) THEN Return(w, id, EmptyArray)
               ELSE IF json.t = "object" /\ "files" \in DOMAIN json.v
                    THEN Return(w, id, [t |-> "array", v |-> json.v.files])
                    ELSE Return(w, id, JUndef)          \* flat.files of a string

\* isValidPackageName(pkgName) (lines 179-207)
isValid_afterPackageJson(w, id) ==
    LET pkgName == w.tasks[id].arg
        packageJson == Awaited(w, id).value
        packageJsonObj == JSON_parse(packageJson.v)
    IN  IF Awaited(w, id).state = "rejected" THEN Rethrow(w, id)
        ELSE IF ~Truthy(packageJson) THEN Return(w, id, JBool(FALSE))
        ELSE IF packageJsonObj.t = "Error" THEN Throw(w, id, packageJsonObj)
        ELSE IF Truthy(Get(packageJsonObj.v, "types")) \/ Truthy(Get(packageJsonObj.v, "typings"))
             THEN Return(w, id, JBool(FALSE))
        ELSE AwaitCall(w, id, "indexDts", "_stat", OriginalPkgName(pkgName) \o S_indexDts)

isValid_afterIndexDtsAccept(w, id) ==
    IF Awaited(w, id).state = "rejected" THEN Rethrow(w, id)
    ELSE Return(w, id, JBool(TRUE))
isValid_afterIndexDts(w, id) ==
    IF Awaited(w, id).state = "rejected" THEN Rethrow(w, id)
    ELSE IF IsFileStat(Awaited(w, id).value) THEN Return(w, id, JBool(FALSE))
    ELSE Return(w, id, JBool(TRUE))

isValidPackageName(w, id) ==
    LET pkgName == w.tasks[id].arg
    IN  CASE w.tasks[id].pc = "start" ->
               IF IsExcludedName(pkgName) THEN Return(w, id, JBool(FALSE))
               ELSE IF StartsWith(pkgName, S_types)
                    THEN AwaitCall(w, id, "packageJson", "_readFile",
                                   OriginalPkgName(pkgName) \o S_packageJson)
                    ELSE Return(w, id, JBool(TRUE))
          [] w.tasks[id].pc = "packageJson" -> isValid_afterPackageJson(w, id)
          [] w.tasks[id].pc = "indexDts" -> isValid_afterIndexDts(w, id)

\* await broadcast.execute(name, argument) inside an async function (lines 250, 271)
AwaitExecute(w, id, name, argument) ==
    IF ~w.channel[Client]
    THEN Await(Return(NewTask(w, "execute", name, id), Len(w.tasks) + 1, JUndef),
               id, "execute", OnTask(Len(w.tasks) + 1))
    ELSE Await(execute(w, Client, name, argument), id, "execute", OnCall(Len(w.calls) + 1))

\* the async functions stored in textCache (lines 243-247 and 249-251)
fetchTextBundled(w, id) ==
    LET path == w.tasks[id].arg
        redonePath == Replace(path, S_typescriptLib, S_dotSlash)
    IN  CASE w.tasks[id].pc = "start" ->
               Await(NewExt(w, "fetch", redonePath), id, "fetch", OnExt(Len(w.exts) + 1))
          [] w.tasks[id].pc = "fetch" ->
               IF Awaited(w, id).state = "rejected" THEN Rethrow(w, id)
               ELSE Await(NewExt(w, "text", redonePath), id, "text", OnExt(Len(w.exts) + 1))
          [] w.tasks[id].pc = "text" ->
               IF Awaited(w, id).state = "rejected" THEN Rethrow(w, id)
               ELSE Return(w, id, Awaited(w, id).value)

fetchTextBroadcast(w, id) ==
    LET path == w.tasks[id].arg
    IN  CASE w.tasks[id].pc = "start" -> AwaitExecute(w, id, getTypes, JStr(path))
          [] w.tasks[id].pc = "execute" ->
               IF Awaited(w, id).state = "rejected" THEN Rethrow(w, id)
               ELSE Return(w, id, Awaited(w, id).value)

\* fetchText(path) (lines 240-255)
fetchText(w, id) ==
    LET path == w.tasks[id].arg
    IN  CASE w.tasks[id].pc = "start" ->
               LET callee == Len(w.tasks) + 1
                   w1 == IF ~MapHas(w.textCache, path)
                         THEN [Call(w, IF StartsWith(path, S_typescriptLib)
                                       THEN "fetchTextBundled" ELSE "fetchTextBroadcast",
                                    path, id)
                               EXCEPT !.textCache = MapSet(@, path, callee)]
                         ELSE w
               IN  Await(w1, id, "textCache", OnTask(w1.textCache[path]))
          [] w.tasks[id].pc = "textCache" ->
               IF Awaited(w, id).state = "rejected" THEN Rethrow(w, id)
               ELSE Return(w, id, Awaited(w, id).value)

\* the async functions stored in jsonCache (lines 260-263, 265-268 and 270-272)
fetchJsonBundled(w, id) ==
    LET pkgName == w.tasks[id].arg
    IN  CASE w.tasks[id].pc = "start" ->
               Await(NewExt(w, "import", pkgName), id, "import", OnExt(Len(w.exts) + 1))
          [] w.tasks[id].pc = "import" ->
               IF Awaited(w, id).state = "rejected" THEN Rethrow(w, id)
               ELSE Return(w, id, Get(Awaited(w, id).value.v, "default"))

fetchJsonBroadcast(w, id) ==
    LET pkgName == w.tasks[id].arg
    IN  CASE w.tasks[id].pc = "start" -> AwaitExecute(w, id, getTypesFlat, JStr(pkgName))
          [] w.tasks[id].pc = "execute" ->
               IF Awaited(w, id).state = "rejected" THEN Rethrow(w, id)
               ELSE Return(w, id, Awaited(w, id).value)

\* fetchJson(pkgName) (lines 257-276)
fetchJsonNoCache(w, id) ==
    LET pkgName == w.tasks[id].arg
    IN  CASE w.tasks[id].pc = "start" ->
               LET callee == Len(w.tasks) + 1
                   w1 == [Call(w, IF pkgName = S_typescript \/ pkgName = S_vue
                                  THEN "fetchJsonBundled" ELSE "fetchJsonBroadcast",
                               pkgName, id)
                          EXCEPT !.jsonCache = MapSet(@, pkgName, callee)]
               IN  Await(w1, id, "jsonCache", OnTask(w1.jsonCache[pkgName]))
          [] w.tasks[id].pc = "jsonCache" ->
               IF Awaited(w, id).state = "rejected" THEN Rethrow(w, id)
               ELSE Return(w, id, Awaited(w, id).value)
fetchJsonRetryFailed(w, id) ==
    LET pkgName == w.tasks[id].arg
    IN  CASE w.tasks[id].pc = "start" ->
               LET callee == Len(w.tasks) + 1
                   w1 == IF \/ ~MapHas(w.jsonCache, pkgName)
                            \/ w.tasks[w.jsonCache[pkgName]].state = "rejected"
                         THEN [Call(w, IF pkgName = S_typescript \/ pkgName = S_vue
                                       THEN "fetchJsonBundled" ELSE "fetchJsonBroadcast",
                                    pkgName, id)
                               EXCEPT !.jsonCache = MapSet(@, pkgName, callee)]
                         ELSE w
               IN  Await(w1, id, "jsonCache", OnTask(w1.jsonCache[pkgName]))
          [] w.tasks[id].pc = "jsonCache" ->
               IF Awaited(w, id).state = "rejected" THEN Rethrow(w, id)
               ELSE Return(w, id, Awaited(w, id).value)
fetchJson(w, id) ==
    LET pkgName == w.tasks[id].arg
    IN  CASE w.tasks[id].pc = "start" ->
               LET callee == Len(w.tasks) + 1
                   w1 == IF ~MapHas(w.jsonCache, pkgName)
                         THEN [Call(w, IF pkgName = S_typescript \/ pkgName = S_vue
                                       THEN "fetchJsonBundled" ELSE "fetchJsonBroadcast",
                                    pkgName, id)
                               EXCEPT !.jsonCache = MapSet(@, pkgName, callee)]
                         ELSE w
               IN  Await(w1, id, "jsonCache", OnTask(w1.jsonCache[pkgName]))
          [] w.tasks[id].pc = "jsonCache" ->
               IF Awaited(w, id).state = "rejected" THEN Rethrow(w, id)
               ELSE Return(w, id, Awaited(w, id).value)

\* task id runs from where it is suspended to its next await or to its end
Run(w, id) ==
    LET fn == w.tasks[id].fn
    IN  CASE fn = "stat" -> stat(w, id)
          [] fn = "readFile" -> readFile(w, id)
          [] fn = "_stat" -> _stat(w, id)
          [] fn = "_readDirectory" -> _readDirectory(w, id)
          [] fn = "_readFile" -> _readFile(w, id)
          [] fn = "statThenFetch" -> statThenFetch(w, id)
          [] fn = "flat" -> flat(w, id)
          [] fn = "isValidPackageName" -> isValidPackageName(w, id)
          [] fn = "fetchText" -> fetchText(w, id)
          [] fn = "fetchTextBundled" -> fetchTextBundled(w, id)
          [] fn = "fetchTextBroadcast" -> fetchTextBroadcast(w, id)
          [] fn = "fetchJson" -> fetchJson(w, id)
          [] fn = "fetchJsonBundled" -> fetchJsonBundled(w, id)
          [] fn = "fetchJsonBroadcast" -> fetchJsonBroadcast(w, id)

(***************************************************************************)
(* The channel on its own: any context executes, registers, closes, opens  *)
(***************************************************************************)

\* names asked for by execute calls: one that contexts may register (or not),
\* and one that nobody registers but Object.prototype has
ExecNames == { getTypes, << "toString" >> }
RegNames == { getTypes }
ExecArguments == { JStr(<< "p" >>) }
\* what a registered function fulfils with (MessageFunction: string | undefined)
FnResults == { JStr(<< "text" >>) }
\* a function found on Object.prototype is toString here: '[object Object]'
FnResultsOf(job) == IF job.own THEN FnResults ELSE { JStr(<< "[object Object]" >>) }

InitChannel ==
    /\ channel = [ c \in Ctx |-> TRUE ]          \* constructed without skipInit
    /\ functions = [ c \in Ctx |-> {} ]
    /\ callbacks = [ c \in Ctx |-> {} ]
    /\ calls = << >>
    /\ inbox = [ c \in Ctx |-> << >> ]
    /\ jobs = {}
    /\ closes = 0

InitNoFs ==
    /\ tasks = << >>
    /\ ready = << >>
    /\ flatResults = << >>
    /\ fetchResults = << >>
    /\ textCache = << >>
    /\ jsonCache = << >>
    /\ exts = << >>

Init == InitChannel /\ InitNoFs

\* some caller runs execute(name, argument) on the channel object of context c
Execute(c, name, argument) ==
    /\ Len(calls) < MaxCalls
    /\ Becomes(execute(World, c, name, argument))

\* registerFunction(name, fn) (lines 96-98)
RegisterFunction(c, name) ==
    /\ functions' = [functions EXCEPT ![c] = @ \cup {name}]
    /\ UNCHANGED << channel, callbacks, calls, inbox, jobs, closes,
                    tasks, ready, flatResults, fetchResults, textCache, jsonCache, exts >>

\* close() (lines 41-48): a closed BroadcastChannel receives nothing any more
Close(c) ==
    /\ closes < MaxCloses
    /\ closes' = closes + 1
    /\ channel' = [channel EXCEPT ![c] = FALSE]
    /\ inbox' = [inbox EXCEPT ![c] = << >>]
    /\ UNCHANGED << functions, callbacks, calls, jobs,
                    tasks, ready, flatResults, fetchResults, textCache, jsonCache, exts >>

\* init() (lines 31-38): a new BroadcastChannel object unless one is open
InitChannelObject(c) ==
    /\ ~channel[c]
    /\ channel' = [channel EXCEPT ![c] = TRUE]
    /\ UNCHANGED << functions, callbacks, calls, inbox, jobs, closes,
                    tasks, ready, flatResults, fetchResults, textCache, jsonCache, exts >>

\* the event loop of context c delivers the next message to onmessage.
\* Messages and timers are tasks of the event loop: they run with no microtask left.
Deliver(c) ==
    /\ ready = << >>
    /\ channel[c]
    /\ inbox[c] # << >>
    /\ Becomes(OnMessage([World EXCEPT !.inbox[c] = Tail(@)], c, Head(inbox[c])))

\* the timer of call i fires
Timeout(i) ==
    /\ ready = << >>
    /\ i \in 1..Len(calls)
    /\ calls[i].timer = "armed"
    /\ Becomes(TimeoutHandler(World, i))

\* a function invoked at line 110 fulfils
FnResolve(job, result) ==
    /\ ready = << >>
    /\ job \in jobs
    /\ Becomes(AfterFunction(World, job, result))

\* a variant in which the handler catches the failure and answers with
\* success=false
FnRejectPostsFailure(job) ==
    /\ ready = << >>
    /\ job \in jobs
    /\ job.own
    /\ Becomes(PostMessage([World EXCEPT !.jobs = @ \ {job}], job.ctx, JSON_stringify(
                   ResponseObject(job.ctx, job.message, FALSE, JStr(<< "Error" >>)))))

\* a function invoked at line 110 throws or rejects: _onMessage ends there
FnReject(job) ==
    /\ ready = << >>
    /\ job \in jobs
    /\ job.own
    /\ jobs' = jobs \ {job}
    /\ UNCHANGED << channel, functions, callbacks, calls, inbox, closes,
                    tasks, ready, flatResults, fetchResults, textCache, jsonCache, exts >>

Next ==
    \/ \E name \in ExecNames, argument \in ExecArguments :
           Execute(Client, name, argument)
    \/ \E c \in Ctx \ {Client}, name \in RegNames : RegisterFunction(c, name)
    \/ \E c \in Ctx : Close(c)
    \/ \E c \in Ctx : InitChannelObject(c)
    \/ \E c \in Ctx : Deliver(c)
    \/ \E i \in 1..MaxCalls : Timeout(i)
    \/ \E job \in jobs : \E result \in FnResultsOf(job) : FnResolve(job, result)
    \/ \E job \in jobs : FnReject(job)

Spec == Init /\ [][Next]_vars


(***************************************************************************)
(* Claims about the channel                                                *)
(***************************************************************************)

\* C2: an execute call whose timeout fired is rejected with the error 'Broadcast
\* Channel timeout', its entry is gone from _callbacks, and it stays so whatever
\* is delivered later: the call was settled once and its entry removed once.
C2_TimeoutRejectsAndRemoves ==
    \A i \in 1..Len(calls) :
        calls[i].timer = "fired" =>
            /\ calls[i].state = "rejected"
            /\ calls[i].value = JErr(BroadcastChannelTimeout)
            /\ i \notin callbacks[calls[i].ctx]
            /\ calls[i].settles = 1
            /\ calls[i].removed = 1

\* a call timed out and a callback carrying its uid was delivered afterwards
C2_LateCallbackDelivered ==
    \E i \in 1..Len(calls) : calls[i].timer = "fired" /\ calls[i].dropped >= 1

\* C3: a call is pending with its entry in place and its timer armed, or it has
\* been settled exactly once and its entry removed exactly once, by the timeout
\* (timer fired, timeout error) or by the first callback (timer cleared); a step
\* taken once it is settled changes nothing of it but the count of dropped callbacks.
C3_SettledOnce(i) ==
    IF calls[i].state = "pending"
    THEN /\ i \in callbacks[calls[i].ctx]
         /\ calls[i].timer = "armed"
         /\ calls[i].settles = 0
         /\ calls[i].removed = 0
    ELSE /\ i \notin callbacks[calls[i].ctx]
         /\ calls[i].timer \in { "fired", "cleared" }
         /\ calls[i].timer = "fired" <=> calls[i].value = JErr(BroadcastChannelTimeout)
         /\ calls[i].settles = 1
         /\ calls[i].removed = 1

C3_AllSettledOnce == \A i \in 1..Len(calls) : C3_SettledOnce(i)

C3_FirstOfCallbackAndTimeoutWins ==
    [][ /\ C3_AllSettledOnce'
        /\ \A i \in 1..Len(calls) :
               calls[i].state # "pending" =>
                   calls'[i] = [calls[i] EXCEPT !.dropped = calls'[i].dropped] ]_vars

\* a call was settled by a callback and a later callback for it was dropped
C3_SecondCallbackDropped ==
    \E i \in 1..Len(calls) : calls[i].timer = "cleared" /\ calls[i].dropped >= 1

\* the execute request that the next Deliver(c) hands to _onMessage
IsExecuteRequest(data) ==
    data.t = "json" /\ Get(data.v, "operation") = JStr(<< "execute" >>) /\ HasMeta(data.v)

\* C4 (the claim as stated): when an open context is delivered an execute request
\* whose name it has not registered, it posts one callback with success=false,
\* the request's uid and a payload naming the function, and runs nothing.
C4_UnregisteredAnsweredByFailure ==
    [][ \A c \in Ctx :
          ( /\ Deliver(c)
            /\ IsExecuteRequest(Head(inbox[c]))
            /\ Get(Head(inbox[c]).v, "name").v \notin functions[c] )
          => LET request == Head(inbox[c]).v
                 answer == JSON_stringify(
                     [ operation |-> JStr(<< "callback" >>),
                       payload |-> JStr(CouldNotExecute \o Get(request, "name").v),
                       success |-> JBool(FALSE),
                       meta |-> JObj([ uid |-> Get(Get(request, "meta").v, "uid"),
                                       broadcaster |-> JStr(<< "href", c >>) ]) ])
             IN  /\ jobs' = jobs
                 /\ \A d \in Ctx \ {c} :
                        channel[d] => inbox'[d] = Append(inbox[d], answer) ]_vars


(***************************************************************************)
(* The file system: the host calls stat / readFile / readDirectory, and    *)
(* context host1 serves getTypes and getTypesFlat                          *)
(***************************************************************************)

\* host calls made in one behaviour
MaxFsCalls == 2

\* what the host asks for (uri.path)
StatUris ==
    { << "/", "n", "o", "d", "e", "_", "m", "o", "d", "u", "l", "e", "s", "/", "p", "/", "a", ".", "j", "s" >>,    \* /node_modules/p/a.js
      << "/", "n", "o", "d", "e", "_", "m", "o", "d", "u", "l", "e", "s", "/", "p", "@", "1", "/", "a", ".", "j", "s" >>,    \* /node_modules/p@1/a.js
      << "/", "n", "o", "d", "e", "_", "m", "o", "d", "u", "l", "e", "s", "/", "p", "/", "l", "i", "b" >>,    \* /node_modules/p/lib
      << "/", "n", "o", "d", "e", "_", "m", "o", "d", "u", "l", "e", "s", "/", "p" >>,    \* /node_modules/p
      << "/", "n", "o", "d", "e", "_", "m", "o", "d", "u", "l", "e", "s", "/", "v", "u", "e", "/", "a", ".", "j", "s" >>,    \* /node_modules/vue/a.js
      << "/", "n", "o", "d", "e", "_", "m", "o", "d", "u", "l", "e", "s" >>,    \* /node_modules
      << "/", "s", "r", "c", "/", "a", ".", "j", "s" >> }    \* /src/a.js
ReadFileUris ==
    { << "/", "n", "o", "d", "e", "_", "m", "o", "d", "u", "l", "e", "s", "/", "p", "/", "a", ".", "j", "s" >>,    \* /node_modules/p/a.js
      << "/", "s", "r", "c", "/", "a", ".", "j", "s" >> }    \* /src/a.js
ReadDirectoryUris ==
    { << "/", "n", "o", "d", "e", "_", "m", "o", "d", "u", "l", "e", "s", "/", "p" >>,    \* /node_modules/p
      << "/", "s", "r", "c", "/", "a", ".", "j", "s" >> }    \* /src/a.js

T1 == << "1970-01-01T00:00:01.000Z" >>
T2 == << "1970-01-01T00:00:02.000Z" >>
Entry(name, size, time) == [name |-> name, size |-> size, time |-> time, hash |-> << "sha" >>]

\* listings a host may answer getTypesFlat with, and the bundled one of vue
Listing1 ==
    << Entry(<< "/", "p", "a", "c", "k", "a", "g", "e", ".", "j", "s", "o", "n" >>, 2, T1), Entry(<< "/", "a", ".", "j", "s" >>, 10, T2),
       Entry(<< "/", "l", "i", "b", "/", "b", ".", "j", "s" >>, 20, T1), Entry(<< "/", "l", "i", "b", "/", "c", "/", "d", ".", "j", "s" >>, 30, T2) >>
Listing2 ==
    << Entry(<< "/", "p", "a", "c", "k", "a", "g", "e", ".", "j", "s", "o", "n" >>, 2, T1), Entry(<< "/", "i", "n", "d", "e", "x", ".", "d", ".", "t", "s" >>, 5, T2),
       Entry(<< "/", "a", ".", "j", "s" >>, 11, T1) >>
VueFlat == << Entry(<< "/", "a", ".", "j", "s" >>, 7, T1) >>

\* what the functions registered by host1 may fulfil with
HostResultsOf(job) ==
    IF Get(job.message, "name") = JStr(getTypesFlat)
    THEN { JUndef, JObj([files |-> Listing1]), JObj([files |-> Listing2]) }
    ELSE { JUndef, JStr(<< "export {}" >>) }

InitFs ==
    /\ channel = [ c \in Ctx |-> c # "host2" ]      \* host2 constructed with skipInit
    /\ functions = [ c \in Ctx |-> IF c = "host1" THEN { getTypes, getTypesFlat } ELSE {} ]
    /\ callbacks = [ c \in Ctx |-> {} ]
    /\ calls = << >>
    /\ inbox = [ c \in Ctx |-> << >> ]
    /\ jobs = {}
    /\ closes = 0
    /\ InitNoFs

HostCalls == Cardinality({ i \in 1..Len(tasks) : tasks[i].by = 0 })

\* the host calls stat(uri)
CallStat(uriPath) ==
    /\ HostCalls < MaxFsCalls
    /\ Becomes(Call(World, "stat", uriPath, 0))

\* the host calls readFile(uri)
CallReadFile(uriPath) ==
    /\ HostCalls < MaxFsCalls
    /\ Becomes(Call(World, "readFile", uriPath, 0))

\* the host calls readDirectory(uri) (lines 56-62): not an async function, it
\* returns [] or the promise of _readDirectory(path)
CallReadDirectory(uriPath) ==
    /\ HostCalls < MaxFsCalls
    /\ LET path == getCdnPath(uriPath)
       IN  IF path = undefined
           THEN Becomes(Return(NewTask(World, "readDirectory", uriPath, 0),
                               Len(tasks) + 1, EmptyArray))
           ELSE Becomes(Call(World, "_readDirectory", path, 0))

\* the next microtask runs: the task at the head of the queue goes on
Step ==
    /\ ready # << >>
    /\ Becomes(Run([World EXCEPT !.ready = Tail(@)], Head(ready)))

\* the platform settles an import() or fetch() promise
ExtSettle(e, state, value) ==
    /\ ready = << >>
    /\ e \in 1..Len(exts)
    /\ exts[e].state = "running"
    /\ Becomes([World EXCEPT !.exts[e].state = state, !.exts[e].value = value,
                             !.ready = @ \o Awaiting(tasks, OnExt(e), 1)])

\* import() of a bundled listing yields the module, or fails to load
ExtValues(e) ==
    { <<"fulfilled", JObj([default |-> JObj([files |-> VueFlat])])>>,
      <<"rejected", JErr(<< "ChunkLoadError" >>)>> }

NextFs ==
    \/ \E u \in StatUris : CallStat(u)
    \/ \E u \in ReadFileUris : CallReadFile(u)
    \/ \E u \in ReadDirectoryUris : CallReadDirectory(u)
    \/ Step
    \/ \E c \in Ctx : Deliver(c)
    \/ \E i \in 1..Len(calls) : Timeout(i)
    \/ \E job \in jobs : \E result \in HostResultsOf(job) : FnResolve(job, result)
    \/ \E e \in 1..Len(exts) : \E v \in ExtValues(e) : ExtSettle(e, v[1], v[2])

SpecFs == InitFs /\ [][NextFs]_vars


(***************************************************************************)
(* Claims about the fetches behind stat, readFile and readDirectory        *)
(***************************************************************************)

TaskIds == 1..Len(tasks)

\* the manifest fetches initiated for a package name: 'getTypesFlat' requests
\* sent on the channel, and loads of a bundled listing
ManifestCalls(pkgName) ==
    { i \in 1..Len(calls) : calls[i].name = getTypesFlat /\ calls[i].argument = JStr(pkgName) }
ManifestImports(pkgName) ==
    { e \in 1..Len(exts) : exts[e].kind = "import" /\ exts[e].arg = pkgName }

\* the settled outcome of the manifest fetches of a package, as [state, value]
ManifestOutcomes(pkgName) ==
    { [state |-> "fulfilled", value |-> calls[i].value] :
          i \in { j \in ManifestCalls(pkgName) : calls[j].state = "resolved" } }
    \cup { [state |-> "rejected", value |-> calls[i].value] :
          i \in { j \in ManifestCalls(pkgName) : calls[j].state = "rejected" } }
    \cup { [state |-> "fulfilled", value |-> Get(exts[e].value.v, "default")] :
          e \in { f \in ManifestImports(pkgName) : exts[f].state = "fulfilled" } }
    \cup { [state |-> "rejected", value |-> exts[e].value] :
          e \in { f \in ManifestImports(pkgName) : exts[f].state = "rejected" } }

\* C1: for every package name a listing was asked for, exactly one manifest fetch
\* (a 'getTypesFlat' request or a bundled load) has been initiated, however many
\* stat / readDirectory calls asked, and every fetchJson caller that has an
\* outcome has the outcome of that one fetch.
C1_OneManifestFetchPerPackage ==
    \A t \in TaskIds :
        tasks[t].fn = "fetchJson" =>
            /\ Cardinality(ManifestCalls(tasks[t].arg))
                   + Cardinality(ManifestImports(tasks[t].arg)) = 1
            /\ tasks[t].state # "running" =>
                   [state |-> tasks[t].state, value |-> tasks[t].value]
                       \in ManifestOutcomes(tasks[t].arg)

\* two callers wait for the listing of the same package at the same time
C1_TwoCallersOneFetch ==
    \E t, u \in TaskIds :
        /\ t # u
        /\ tasks[t].fn = "fetchJson" /\ tasks[u].fn = "fetchJson"
        /\ tasks[t].arg = tasks[u].arg
        /\ tasks[t].state = "running" /\ tasks[u].state = "running"

\* C5 (the claim as stated): a stat or readDirectory whose package's manifest
\* fetch failed is not rejected: the listing is taken to be empty.
C5_ManifestFailureGivesEmptyListing ==
    \A t \in TaskIds :
        ( /\ tasks[t].fn \in { "_stat", "_readDirectory", "flat" }
          /\ \E i \in ManifestCalls(IF tasks[t].fn = "flat" THEN tasks[t].arg
                                    ELSE resolvePackageName(tasks[t].arg).pkgName) :
                 calls[i].state = "rejected" )
        => tasks[t].state # "rejected"

\* C6 (the claim as stated): a readFile whose 'getTypes' call for the path was
\* rejected is not rejected: it completes with absent.
C6_ContentFailureGivesAbsent ==
    \A t \in TaskIds :
        ( /\ tasks[t].fn = "_readFile"
          /\ \E i \in 1..Len(calls) :
                 /\ calls[i].name = getTypes
                 /\ calls[i].argument = JStr(tasks[t].arg)
                 /\ calls[i].state = "rejected" )
        => tasks[t].state # "rejected"


(***************************************************************************)
(* One stat or readDirectory on package p, over every listing of at most   *)
(* MaxEntries entries the host may answer getTypesFlat with                *)
(***************************************************************************)

MaxEntries == 3

N_a == << "/", "a", ".", "j", "s" >>
N_lib_b == << "/", "l", "i", "b", "/", "b", ".", "j", "s" >>
N_lib_c_d == << "/", "l", "i", "b", "/", "c", "/", "d", ".", "j", "s" >>
N_lib == << "/", "l", "i", "b" >>
N_libx == << "/", "l", "i", "b", "x", ".", "j", "s" >>

ListingEntries ==
    { Entry(N_a, 10, T1), Entry(N_a, 11, T2), Entry(N_lib_b, 20, T1),
      Entry(N_lib_c_d, 30, T2), Entry(N_lib, 5, T1), Entry(N_libx, 6, T2) }

Listings == UNION { [ 1..n -> ListingEntries ] : n \in 0..MaxEntries }

ListingStatUris ==
    { << "/", "n", "o", "d", "e", "_", "m", "o", "d", "u", "l", "e", "s", "/", "p", "/", "a", ".", "j", "s" >>,    \* /node_modules/p/a.js
      << "/", "n", "o", "d", "e", "_", "m", "o", "d", "u", "l", "e", "s", "/", "p", "/", "l", "i" >>,    \* /node_modules/p/li
      << "/", "n", "o", "d", "e", "_", "m", "o", "d", "u", "l", "e", "s", "/", "p", "/", "l", "i", "b" >>,    \* /node_modules/p/lib
      << "/", "n", "o", "d", "e", "_", "m", "o", "d", "u", "l", "e", "s", "/", "p", "/", "l", "i", "b", "/", "c" >>,    \* /node_modules/p/lib/c
      << "/", "n", "o", "d", "e", "_", "m", "o", "d", "u", "l", "e", "s", "/", "p", "/", "l", "i", "b", "/", "b", ".", "j", "s" >>,    \* /node_modules/p/lib/b.js
      << "/", "n", "o", "d", "e", "_", "m", "o", "d", "u", "l", "e", "s", "/", "p", "@", "1", "/", "l", "i", "b" >> }    \* /node_modules/p@1/lib
ListingReadDirectoryUris ==
    { << "/", "n", "o", "d", "e", "_", "m", "o", "d", "u", "l", "e", "s", "/", "p" >>,    \* /node_modules/p
      << "/", "n", "o", "d", "e", "_", "m", "o", "d", "u", "l", "e", "s", "/", "p", "/", "l", "i", "b" >>,    \* /node_modules/p/lib
      << "/", "n", "o", "d", "e", "_", "m", "o", "d", "u", "l", "e", "s", "/", "p", "/", "l", "i", "b", "/", "c" >>,    \* /node_modules/p/lib/c
      << "/", "n", "o", "d", "e", "_", "m", "o", "d", "u", "l", "e", "s", "/", "p", "@", "1", "/", "l", "i", "b" >> }    \* /node_modules/p@1/lib

\* what host1's getTypesFlat may fulfil with
ListingResults == { JUndef } \cup { JObj([files |-> l]) : l \in Listings }

NextListing ==
    \/ \E u \in ListingStatUris : HostCalls = 0 /\ CallStat(u)
    \/ \E u \in ListingReadDirectoryUris : HostCalls = 0 /\ CallReadDirectory(u)
    \/ Step
    \/ \E c \in Ctx : Deliver(c)
    \/ \E i \in 1..Len(calls) : Timeout(i)
    \/ \E job \in jobs : \E result \in ListingResults : FnResolve(job, result)

SpecListing == InitFs /\ [][NextListing]_vars

\* the task went through validation of its package and the package passed
PackageValidated(t) ==
    \E v \in TaskIds :
        /\ tasks[v].fn = "isValidPackageName" /\ tasks[v].by = t
        /\ tasks[v].state = "fulfilled" /\ tasks[v].value = JBool(TRUE)

\* the entries of the manifest a fetch delivered (none for an absent result)
ManifestEntries(value) == IF Truthy(value) THEN Get(value.v, "files") ELSE << >>

\* C7: what stat is to answer for sub-path sub of a package with manifest m
C7_Descriptor(m, sub) ==
    LET exact == { i \in 1..Len(m) : m[i].name = S_slash \o sub }
        first == CHOOSE i \in exact : \A j \in exact : i <= j
    IN  IF exact # {}
        THEN [t |-> "stat", v |-> [type |-> 1, ctime |-> DateValueOf(m[first].time),
                                   mtime |-> DateValueOf(m[first].time),
                                   size |-> m[first].size]]
        ELSE IF \E i \in 1..Len(m) : StartsWith(m[i].name, S_slash \o sub \o S_slash)
             THEN [t |-> "stat", v |-> [type |-> 2, ctime |-> -1, mtime |-> -1, size |-> -1]]
             ELSE JUndef

\* C7: a completed _stat of a valid package with a non-empty sub-path answers a
\* File descriptor with the entry's size and time exactly when the manifest has
\* an entry named '/'+sub-path, otherwise a Directory descriptor exactly when
\* an entry's name begins with '/'+sub-path+'/', otherwise absent.
C7_StatFollowsManifest ==
    \A t \in TaskIds :
        LET r == resolvePackageName(tasks[t].arg)
        IN  ( /\ tasks[t].fn = "_stat" /\ tasks[t].state = "fulfilled"
              /\ ~Falsy(r.pkgName) /\ ~Falsy(r.path)
              /\ PackageValidated(t) )
            => \E o \in ManifestOutcomes(r.pkgName) :
                   /\ o.state = "fulfilled"
                   /\ tasks[t].value = C7_Descriptor(ManifestEntries(o.value), r.path)

\* a stat answered Directory although an entry's name has the sub-path as a
\* prefix without the separator (/libx.js for lib)
C7_DirectoryBesideLookalike ==
    \E t \in TaskIds :
        /\ tasks[t].fn = "_stat" /\ tasks[t].state = "fulfilled"
        /\ PackageValidated(t)
        /\ tasks[t].value = DirectoryStat
        /\ \E o \in ManifestOutcomes(resolvePackageName(tasks[t].arg).pkgName) :
               /\ o.state = "fulfilled" /\ Truthy(o.value)
               /\ \E i \in 1..Len(o.value.v.files) : o.value.v.files[i].name = N_libx

\* the path segments of an entry name ('/lib/b.js' gives lib, b.js) and of a
\* directory's sub-path ('' gives none)
C8_Segments(name) == Tail(Split(name, "/"))
C8_DirSegments(sub) == IF sub = << >> THEN << >> ELSE Split(sub, "/")
C8_Beneath(name, dir) ==
    /\ Len(C8_Segments(name)) > Len(dir)
    /\ SubSeq(C8_Segments(name), 1, Len(dir)) = dir

\* C8: a completed _readDirectory of a valid package answers, as files, the
\* entries whose parent directory is dir, by their last segment and in manifest
\* order; as directories, the first segments below dir of the deeper entries,
\* none twice; and nothing else.
C8_Answer(m, dir, rows) ==
    LET here == SelectSeq(m, LAMBDA f : C8_Beneath(f.name, dir)
                                      /\ Len(C8_Segments(f.name)) = Len(dir) + 1)
        deeper == { i \in 1..Len(m) : C8_Beneath(m[i].name, dir)
                                      /\ Len(C8_Segments(m[i].name)) > Len(dir) + 1 }
        fileRows == SelectSeq(rows, LAMBDA row : row[2] = 1)
        dirRows == SelectSeq(rows, LAMBDA row : row[2] = 2)
    IN  /\ Len(fileRows) + Len(dirRows) = Len(rows)
        /\ fileRows = [ i \in 1..Len(here) |->
                          << C8_Segments(here[i].name)[Len(dir) + 1], 1 >> ]
        /\ { dirRows[i][1] : i \in 1..Len(dirRows) }
               = { C8_Segments(m[i].name)[Len(dir) + 1] : i \in deeper }
        /\ \A i, j \in 1..Len(dirRows) : dirRows[i][1] = dirRows[j][1] => i = j
C8_ReadDirectoryFollowsManifest ==
    \A t \in TaskIds :
        LET r == resolvePackageName(tasks[t].arg)
        IN  ( /\ tasks[t].fn = "_readDirectory" /\ tasks[t].state = "fulfilled"
              /\ PackageValidated(t) )
            => \E o \in ManifestOutcomes(r.pkgName) :
                   /\ o.state = "fulfilled"
                   /\ tasks[t].value.t = "array"
                   /\ C8_Answer(ManifestEntries(o.value), C8_DirSegments(r.path),
                                tasks[t].value.v)

\* a readDirectory answered with one directory row for two deeper entries
C8_TwoEntriesOneDirectory ==
    \E t \in TaskIds :
        /\ tasks[t].fn = "_readDirectory" /\ tasks[t].state = "fulfilled"
        /\ PackageValidated(t)
        /\ tasks[t].value = [t |-> "array", v |-> << << << "l", "i", "b" >>, 2 >> >>]
        /\ \E o \in ManifestOutcomes(resolvePackageName(tasks[t].arg).pkgName) :
               /\ o.state = "fulfilled" /\ Truthy(o.value)
               /\ Len(o.value.v.files) >= 2


(***************************************************************************)
(* stat, readFile and readDirectory on @types packages and excluded names  *)
(***************************************************************************)

TypesStatUris ==
    { << "/", "n", "o", "d", "e", "_", "m", "o", "d", "u", "l", "e", "s", "/", "@", "t", "y", "p", "e", "s", "/", "p", "/", "i", "n", "d", "e", "x", ".", "d", ".", "t", "s" >>,    \* /node_modules/@types/p/index.d.ts
      << "/", "n", "o", "d", "e", "_", "m", "o", "d", "u", "l", "e", "s", "/", "@", "t", "y", "p", "e", "s", "/", "p" >>,    \* /node_modules/@types/p
      << "/", "n", "o", "d", "e", "_", "m", "o", "d", "u", "l", "e", "s", "/", "@", "t", "y", "p", "e", "s", "/", "a", "_", "_", "b", "/", "i", "n", "d", "e", "x", ".", "d", ".", "t", "s" >>,    \* /node_modules/@types/a__b/index.d.ts
      << "/", "n", "o", "d", "e", "_", "m", "o", "d", "u", "l", "e", "s", "/", "p", "/", "i", "n", "d", "e", "x", ".", "d", ".", "t", "s" >>,    \* /node_modules/p/index.d.ts
      << "/", "n", "o", "d", "e", "_", "m", "o", "d", "u", "l", "e", "s", "/", "@", "a", "/", "b", "/", "i", "n", "d", "e", "x", ".", "d", ".", "t", "s" >>,    \* /node_modules/@a/b/index.d.ts
      << "/", "n", "o", "d", "e", "_", "m", "o", "d", "u", "l", "e", "s", "/", "@", "t", "y", "p", "e", "s", "c", "r", "i", "p", "t", "/", "x", "/", "a", ".", "j", "s" >> }    \* /node_modules/@typescript/x/a.js
TypesReadFileUris ==
    { << "/", "n", "o", "d", "e", "_", "m", "o", "d", "u", "l", "e", "s", "/", "p", "/", "p", "a", "c", "k", "a", "g", "e", ".", "j", "s", "o", "n" >>,    \* /node_modules/p/package.json
      << "/", "n", "o", "d", "e", "_", "m", "o", "d", "u", "l", "e", "s", "/", "@", "t", "y", "p", "e", "s", "/", "p", "/", "i", "n", "d", "e", "x", ".", "d", ".", "t", "s" >> }    \* /node_modules/@types/p/index.d.ts
TypesReadDirectoryUris ==
    { << "/", "n", "o", "d", "e", "_", "m", "o", "d", "u", "l", "e", "s", "/", "@", "t", "y", "p", "e", "s", "/", "p" >>,    \* /node_modules/@types/p
      << "/", "n", "o", "d", "e", "_", "m", "o", "d", "u", "l", "e", "s", "/", "@", "t", "y", "p", "e", "s", "/", "a", "_", "_", "b" >>,    \* /node_modules/@types/a__b
      << "/", "n", "o", "d", "e", "_", "m", "o", "d", "u", "l", "e", "s", "/", "@", "t", "y", "p", "e", "s", "c", "r", "i", "p", "t", "/", "x" >> }    \* /node_modules/@typescript/x

\* what host1's functions may fulfil with: a listing with or without
\* /index.d.ts, a package.json text of each kind
TypesResultsOf(job) ==
    IF Get(job.message, "name") = JStr(getTypesFlat)
    THEN { JUndef, JObj([files |-> Listing1]), JObj([files |-> Listing2]) }
    ELSE { JUndef, JStr(EmptyObjectText), JStr(TypesText), JStr(TypingsText),
           JStr(EmptyTypesText), JStr(NotJsonText) }

\* the host asks again once its earlier call has completed
Completed == ready = << >> /\ \A t \in 1..Len(tasks) : tasks[t].state # "running"

NextTypes ==
    \/ \E u \in TypesStatUris : Completed /\ CallStat(u)
    \/ \E u \in TypesReadFileUris : Completed /\ CallReadFile(u)
    \/ \E u \in TypesReadDirectoryUris : Completed /\ CallReadDirectory(u)
    \/ Step
    \/ \E c \in Ctx : Deliver(c)
    \/ \E i \in 1..Len(calls) : Timeout(i)
    \/ \E job \in jobs : \E result \in TypesResultsOf(job) : FnResolve(job, result)

SpecTypes == InitFs /\ [][NextTypes]_vars

\* C9: x of '@types/x': the name without '@types/', a first '__' turned into
\* '/' behind a leading '@'
C9_Original(pkgName) ==
    LET rest == SubSeq(pkgName, 8, Len(pkgName))
        at == { i \in 1..(Len(rest) - 1) : rest[i] = "_" /\ rest[i + 1] = "_" }
        k == CHOOSE i \in at : \A j \in at : i <= j
    IN  IF at = {} THEN rest
        ELSE << "@" >> \o SubSeq(rest, 1, k - 1) \o << "/" >> \o SubSeq(rest, k + 2, Len(rest))

\* C9: the text is a package.json without a non-empty types or typings field
C9_DeclaresNoTypes(value) ==
    /\ Truthy(value)
    /\ JSON_parse(value.v).t = "object"
    /\ ~Truthy(Get(JSON_parse(value.v).v, "types"))
    /\ ~Truthy(Get(JSON_parse(value.v).v, "typings"))

\* the original of an @types package is known to ship its own types: a stat of
\* x/index.d.ts answered a File, or a read of x/package.json answered absent or
\* a text with a non-empty types or typings field
C9_StatReportsFile(x) ==
    \E s \in TaskIds : /\ tasks[s].fn = "_stat" /\ tasks[s].arg = x \o S_indexDts
                       /\ tasks[s].state = "fulfilled"
                       /\ tasks[s].value.t = "stat" /\ tasks[s].value.v.type = 1
C9_PackageJsonRejects(x) ==
    \E f \in TaskIds : /\ tasks[f].fn = "_readFile" /\ tasks[f].arg = x \o S_packageJson
                       /\ tasks[f].state = "fulfilled"
                       /\ \/ ~Truthy(tasks[f].value)
                          \/ /\ JSON_parse(tasks[f].value.v).t = "object"
                             /\ \/ Truthy(Get(JSON_parse(tasks[f].value.v).v, "types"))
                                \/ Truthy(Get(JSON_parse(tasks[f].value.v).v, "typings"))

\* C9 (the claim as stated): whenever stat of x/index.d.ts reports a file, or
\* x/package.json reads as absent or with a non-empty types or typings field,
\* a settled isValidPackageName('@types/x') has answered false.
C9_FalseWheneverOriginalHasTypes ==
    \A v \in TaskIds :
        ( /\ tasks[v].fn = "isValidPackageName"
          /\ StartsWith(tasks[v].arg, << "@", "t", "y", "p", "e", "s", "/" >>)
          /\ tasks[v].state # "running"
          /\ \/ C9_StatReportsFile(C9_Original(tasks[v].arg))
             \/ C9_PackageJsonRejects(C9_Original(tasks[v].arg)) )
        => tasks[v].state = "fulfilled" /\ tasks[v].value = JBool(FALSE)

\* what does hold of C9: isValidPackageName('@types/x') answers true only if
\* x/package.json was read, every completed read of it gave a text declaring
\* no types or typings, and no completed stat of x/index.d.ts answered a File.
C9_NeverAcceptsShadowed ==
    \A v \in TaskIds :
        ( /\ tasks[v].fn = "isValidPackageName"
          /\ StartsWith(tasks[v].arg, << "@", "t", "y", "p", "e", "s", "/" >>)
          /\ tasks[v].state = "fulfilled" /\ tasks[v].value = JBool(TRUE) )
        => LET x == C9_Original(tasks[v].arg)
           IN  /\ \E s \in TaskIds : /\ tasks[s].fn = "_readFile"
                                     /\ tasks[s].arg = x \o S_packageJson
                                     /\ tasks[s].state = "fulfilled"
               /\ \A s \in TaskIds :
                      ( /\ tasks[s].fn = "_readFile" /\ tasks[s].arg = x \o S_packageJson
                        /\ tasks[s].state = "fulfilled" )
                      => C9_DeclaresNoTypes(tasks[s].value)
               /\ \A s \in TaskIds :
                      ( /\ tasks[s].fn = "_stat" /\ tasks[s].arg = x \o S_indexDts
                        /\ tasks[s].state = "fulfilled" )
                      => ~(tasks[s].value.t = "stat" /\ tasks[s].value.v.type = 1)

\* '@types/a__b' was rejected because @a/b/index.d.ts is a file although
\* @a/b/package.json declares no types
C9_RejectedForIndexDts ==
    \E v, s, f \in TaskIds :
        /\ tasks[v].fn = "isValidPackageName"
        /\ tasks[v].arg = << "@", "t", "y", "p", "e", "s", "/", "a", "_", "_", "b" >>
        /\ tasks[v].state = "fulfilled" /\ tasks[v].value = JBool(FALSE)
        /\ tasks[s].fn = "_stat" /\ tasks[s].arg = << "@", "a", "/", "b", "/", "i", "n", "d", "e", "x", ".", "d", ".", "t", "s" >>
        /\ tasks[s].state = "fulfilled" /\ IsFileStat(tasks[s].value)
        /\ tasks[f].fn = "_readFile" /\ tasks[f].arg = << "@", "a", "/", "b", "/", "p", "a", "c", "k", "a", "g", "e", ".", "j", "s", "o", "n" >>
        /\ tasks[f].state = "fulfilled" /\ C9_DeclaresNoTypes(tasks[f].value)

\* C10: once validation of a package answered false, no manifest fetch exists
\* for that package, every settled _stat on it (root or sub-path) is fulfilled
\* with absent, and every settled _readDirectory on it with the empty sequence.
C10_RejectedPackageIsEmpty ==
    \A v \in TaskIds :
        ( /\ tasks[v].fn = "isValidPackageName"
          /\ tasks[v].state = "fulfilled" /\ tasks[v].value = JBool(FALSE) )
        => /\ ManifestCalls(tasks[v].arg) = {}
           /\ ManifestImports(tasks[v].arg) = {}
           /\ \A t \in TaskIds :
                  ( /\ tasks[t].fn \in { "_stat", "_readDirectory" }
                    /\ resolvePackageName(tasks[t].arg).pkgName = tasks[v].arg
                    /\ tasks[t].state # "running" )
                  => /\ tasks[t].state = "fulfilled"
                     /\ tasks[t].value = IF tasks[t].fn = "_stat" THEN JUndef ELSE EmptyArray

\* a stat below and a readDirectory of an @types package whose original
\* declares its own types have both completed
C10_RejectedTypesPackageAsked ==
    \E v, t, d \in TaskIds :
        /\ tasks[v].fn = "isValidPackageName"
        /\ tasks[v].arg = << "@", "t", "y", "p", "e", "s", "/", "p" >>
        /\ tasks[v].state = "fulfilled" /\ tasks[v].value = JBool(FALSE)
        /\ tasks[t].fn = "_stat" /\ tasks[t].arg = << "@", "t", "y", "p", "e", "s", "/", "p", "/", "i", "n", "d", "e", "x", ".", "d", ".", "t", "s" >>
        /\ tasks[t].state = "fulfilled"
        /\ tasks[d].fn = "_readDirectory" /\ tasks[d].arg = << "@", "t", "y", "p", "e", "s", "/", "p" >>
        /\ tasks[d].state = "fulfilled"
        /\ \E f \in TaskIds :
               /\ tasks[f].fn = "_readFile" /\ tasks[f].arg = << "p", "/", "p", "a", "c", "k", "a", "g", "e", ".", "j", "s", "o", "n" >>
               /\ tasks[f].state = "fulfilled" /\ tasks[f].value = JStr(TypesText)


(***************************************************************************)
(* One stat, readFile or readDirectory on every path of at most            *)
(* MaxSegments segments: what resolvePackageName makes of the path         *)
(***************************************************************************)

MaxSegments == 3

\* segments a path is made of: empty, plain, a scope, a bare '@', versioned,
\* and one with two version markers
PathSegments ==
    { << >>, << "a" >>, << "@", "s" >>, << "@" >>, << "n", "@", "1" >>, << "m", "@", "2", "@", "3" >> }

Paths == { Join(segs, "/") : segs \in UNION { [ 1..n -> PathSegments ] : n \in 1..MaxSegments } }

\* uri.path of the addresses below the root
PathUris == { S_node_modules \o S_slash \o path : path \in Paths }

NextResolve ==
    \/ HostCalls = 0 /\ \E u \in PathUris : CallStat(u)
    \/ HostCalls = 0 /\ \E u \in PathUris : CallReadFile(u)
    \/ HostCalls = 0 /\ \E u \in PathUris : CallReadDirectory(u)
    \/ Step
    \/ \E c \in Ctx : Deliver(c)
    \/ \E i \in 1..Len(calls) : Timeout(i)
    \/ \E job \in jobs : \E result \in HostResultsOf(job) : FnResolve(job, result)

SpecResolve == InitFs /\ [][NextResolve]_vars

\* the functions that begin by resolving their path
ResolvingTasks ==
    { t \in TaskIds : tasks[t].fn \in { "_stat", "_readFile", "_readDirectory" } }

\* C11: the decomposition as the claim words it, on the segments of the path
C11_Segs(input) == Split(input, "/")
C11_TwoSegmentToken(input) ==
    Len(C11_Segs(input)) >= 2 /\ Len(C11_Segs(input)[1]) >= 1 /\ C11_Segs(input)[1][1] = "@"
C11_Token(input) ==
    IF C11_TwoSegmentToken(input)
    THEN C11_Segs(input)[1] \o << "/" >> \o C11_Segs(input)[2]
    ELSE C11_Segs(input)[1]
C11_Rest(input) ==
    Join(SubSeq(C11_Segs(input), IF C11_TwoSegmentToken(input) THEN 3 ELSE 2,
                Len(C11_Segs(input))), "/")
C11_Markers(token) == { i \in 2..Len(token) : token[i] = "@" }
C11_LastMarker(token) == CHOOSE i \in C11_Markers(token) : \A j \in C11_Markers(token) : j <= i
C11_Decomposition(input) ==
    LET token == C11_Token(input)
    IN  [ modName |-> token,
          pkgName |-> IF C11_Markers(token) = {} THEN token
                      ELSE SubSeq(token, 1, C11_LastMarker(token) - 1),
          version |-> IF C11_Markers(token) = {} THEN undefined
                      ELSE SubSeq(token, C11_LastMarker(token) + 1, Len(token)),
          path |-> C11_Rest(input) ]

\* a scope with no name behind it: '@s', '@s/', '@s//a'
C11_IncompleteScope(input) ==
    /\ Len(C11_Segs(input)[1]) >= 1 /\ C11_Segs(input)[1][1] = "@"
    /\ Len(C11_Segs(input)) < 2 \/ C11_Segs(input)[2] = << >>

\* C11 (the claim as stated): every path a function resolves is decomposed into
\* module token (first segment, or the first two when the first starts with '@'
\* and a second exists), sub-path (the remaining segments) and package name /
\* version (the token split at its last '@' at index >= 1).
C11_EveryPathDecomposes ==
    \A t \in ResolvingTasks :
        resolvePackageName(tasks[t].arg) = C11_Decomposition(tasks[t].arg)

\* C11 (amended): the decomposition holds for every path but those that begin
\* with a scope that has no name behind it; for these the resolver answers the
\* scope segment alone, no package name, no version and an empty sub-path.
C11_DecomposesButIncompleteScope ==
    \A t \in ResolvingTasks :
        resolvePackageName(tasks[t].arg) =
            IF C11_IncompleteScope(tasks[t].arg)
            THEN [ modName |-> C11_Segs(tasks[t].arg)[1], pkgName |-> undefined,
                   version |-> undefined, path |-> << >> ]
            ELSE C11_Decomposition(tasks[t].arg)

\* _stat of '@s/n@1/a' asked the validation of package '@s/n', and _stat of
\* 'm@2@3/a' that of 'm@2'
C11_ScopedVersionedResolved ==
    \E t, v \in TaskIds :
        /\ tasks[t].fn = "_stat" /\ tasks[t].arg = << "@", "s", "/", "n", "@", "1", "/", "a" >>
        /\ tasks[v].fn = "isValidPackageName" /\ tasks[v].by = t
        /\ tasks[v].arg = << "@", "s", "/", "n" >>
        /\ resolvePackageName(tasks[t].arg).version = << "1" >>
        /\ resolvePackageName(tasks[t].arg).path = << "a" >>


(***************************************************************************)
(* The channel with a foreign page of the same origin posting on it        *)
(***************************************************************************)

MaxInbox == 2

\* what is no message of the protocol: empty data, text that is no JSON, and
\* objects without operation or without meta / meta.uid
MalformedData ==
    { EmptyData, GarbageData,
      JSON_stringify([ payload |-> JStr(<< "p" >>) ]),
      JSON_stringify([ payload |-> JStr(<< "p" >>), success |-> JBool(TRUE),
                       meta |-> JObj([uid |-> JStr(UidOf(1))]) ]),
      JSON_stringify([ operation |-> JStr(<< "execute" >>), name |-> JStr(getTypes) ]),
      JSON_stringify([ operation |-> JStr(<< "execute" >>), name |-> JStr(<< "nope" >>) ]),
      JSON_stringify([ operation |-> JStr(<< "execute" >>), name |-> JStr(<< "nope" >>),
                       meta |-> JObj([broadcaster |-> JStr(<< "href" >>)]) ]),
      JSON_stringify([ operation |-> JStr(<< "callback" >>), success |-> JBool(TRUE),
                       payload |-> JStr(<< "p" >>) ]),
      JSON_stringify([ operation |-> JStr(<< "callback" >>), success |-> JBool(TRUE),
                       meta |-> JObj([broadcaster |-> JStr(<< "href" >>)]) ]) }

\* a BroadcastChannel object of another script with the same id posts data: it
\* is queued for every open channel object
Foreign(data) ==
    /\ \A c \in Ctx : Len(inbox[c]) < MaxInbox
    /\ inbox' = [ c \in Ctx |-> IF channel[c] THEN Append(inbox[c], data) ELSE inbox[c] ]
    /\ UNCHANGED << channel, functions, callbacks, calls, jobs, closes,
                    tasks, ready, flatResults, fetchResults, textCache, jsonCache, exts >>

NextMalformed ==
    \/ \E name \in ExecNames, argument \in ExecArguments : Execute(Client, name, argument)
    \/ \E data \in MalformedData : Foreign(data)
    \/ \E c \in Ctx : Deliver(c)
    \/ \E i \in 1..Len(calls) : Timeout(i)
    \/ \E job \in jobs : \E result \in FnResultsOf(job) : FnResolve(job, result)

SpecMalformed == InitFs /\ [][NextMalformed]_vars

\* onmessage of context c is about to get / gets the head of its queue
C12_Next(c) == Head(inbox[c])
C12_Delivered(c) ==
    /\ ready = << >> /\ channel[c] /\ inbox[c] # << >>
    /\ inbox'[c] = Tail(inbox[c])

\* a callback message of the protocol for the pending call i
C12_IsCallbackFor(data, i) ==
    /\ data.t = "json"
    /\ Get(data.v, "operation") = JStr(<< "callback" >>)
    /\ Get(data.v, "meta").t = "object"
    /\ Get(Get(data.v, "meta").v, "uid") = JStr(UidOf(i))

\* C12: the delivery of an empty or malformed message to a channel changes no
\* pending-callback table, no timer, no call's outcome and no registered
\* function, and leaves the channel open; the delivery of a callback of the
\* protocol for a pending call, whatever was delivered before, settles the call.
C12_MalformedIsDiscarded ==
    [][ \A c \in Ctx :
          /\ ( C12_Delivered(c) /\ C12_Next(c) \in MalformedData )
             => /\ callbacks' = callbacks
                /\ calls' = calls
                /\ functions' = functions
                /\ channel' = channel
          /\ \A i \in callbacks[c] :
                ( C12_Delivered(c) /\ C12_IsCallbackFor(C12_Next(c), i) )
                => /\ calls'[i].state # "pending"
                   /\ i \notin callbacks'[c] ]_vars

\* the caller's queue holds a malformed message and, behind it, the callback
\* for its pending call
C12_MalformedBeforeCallback ==
    \E i \in callbacks[Client] :
        /\ Len(inbox[Client]) >= 2
        /\ inbox[Client][1] \in MalformedData
        /\ C12_IsCallbackFor(inbox[Client][2], i)
        /\ calls[i].state = "pending"


(***************************************************************************)
(* The host asks again after its earlier calls have completed              *)
(***************************************************************************)

NextLater ==
    \/ Completed /\ \E u \in StatUris : CallStat(u)
    \/ Completed /\ \E u \in ReadFileUris : CallReadFile(u)
    \/ Completed /\ \E u \in ReadDirectoryUris : CallReadDirectory(u)
    \/ Step
    \/ \E c \in Ctx : Deliver(c)
    \/ \E i \in 1..Len(calls) : Timeout(i)
    \/ \E job \in jobs : \E result \in HostResultsOf(job) : FnResolve(job, result)
    \/ \E e \in 1..Len(exts) : \E v \in ExtValues(e) : ExtSettle(e, v[1], v[2])

SpecLater == InitFs /\ [][NextLater]_vars

\* the content fetches initiated for a path, and their settled outcomes
ContentCalls(path) ==
    { i \in 1..Len(calls) : calls[i].name = getTypes /\ calls[i].argument = JStr(path) }
ContentOutcomes(path) ==
    { [state |-> IF calls[i].state = "resolved" THEN "fulfilled" ELSE "rejected",
       value |-> calls[i].value] :
          i \in { j \in ContentCalls(path) : calls[j].state # "pending" } }

\* every fetchText / fetchJson that has an outcome has the outcome of a fetch of
\* its key
C13_ObservedOutcomes ==
    \A t \in TaskIds :
        /\ ( tasks[t].fn = "fetchJson" /\ tasks[t].state # "running" )
           => [state |-> tasks[t].state, value |-> tasks[t].value]
                  \in ManifestOutcomes(tasks[t].arg)
        /\ ( tasks[t].fn = "fetchText" /\ tasks[t].state # "running" )
           => [state |-> tasks[t].state, value |-> tasks[t].value]
                  \in ContentOutcomes(tasks[t].arg)

\* C13: a step sends no request with the name and argument of a call that has
\* settled, loads no bundled listing again, and leaves a settled call or load
\* as it is; and every fetchText / fetchJson that has an outcome has the
\* outcome of the one fetch of its key, failed or not.
C13_SettledFetchNeverRetried ==
    [][ /\ \A i \in 1..Len(calls) :
              calls[i].state # "pending"
              => /\ calls'[i].state = calls[i].state /\ calls'[i].value = calls[i].value
                 /\ \A j \in (Len(calls) + 1)..Len(calls') :
                        ~( calls'[j].name = calls[i].name
                           /\ calls'[j].argument = calls[i].argument )
        /\ \A e \in 1..Len(exts) :
              exts[e].state # "running"
              => /\ exts'[e] = exts[e]
                 /\ \A f \in (Len(exts) + 1)..Len(exts') :
                        ~( exts'[f].kind = exts[e].kind /\ exts'[f].arg = exts[e].arg )
        /\ C13_ObservedOutcomes' ]_vars

\* the manifest fetch of p failed; a stat on p@1 asked after that was rejected
\* with the same error, and there is still one request
C13_FailureObservedLater ==
    \E h, k \in TaskIds :
        /\ h < k
        /\ tasks[h].by = 0 /\ tasks[k].by = 0
        /\ tasks[h].arg = << "/", "n", "o", "d", "e", "_", "m", "o", "d", "u", "l", "e", "s", "/", "p", "/", "a", ".", "j", "s" >>
        /\ tasks[k].arg = << "/", "n", "o", "d", "e", "_", "m", "o", "d", "u", "l", "e", "s", "/", "p", "@", "1", "/", "a", ".", "j", "s" >>
        /\ tasks[h].state = "rejected" /\ tasks[k].state = "rejected"
        /\ tasks[k].value = tasks[h].value
        /\ Cardinality(ManifestCalls(<< "p" >>)) = 1


(***************************************************************************)
(* Claims about readFile                                                   *)
(***************************************************************************)

\* the stat-then-fetch steps started for a path
StatThenFetchTasks(path) ==
    { t \in TaskIds : tasks[t].fn = "statThenFetch" /\ tasks[t].arg = path }

\* C14: a content fetch is begun only by a stat-then-fetch step whose stat of
\* the path answered a File; there is at most one such step per path; and every
\* _readFile that got as far as the step and has an outcome has the step's
\* outcome, absent included.
C14_StatThenFetchOncePerPath ==
    /\ \A t \in TaskIds :
           tasks[t].fn = "fetchText"
           => /\ tasks[t].by \in StatThenFetchTasks(tasks[t].arg)
              /\ \E s \in TaskIds :
                     /\ tasks[s].fn = "_stat" /\ tasks[s].by = tasks[t].by
                     /\ tasks[s].arg = tasks[t].arg
                     /\ tasks[s].state = "fulfilled"
                     /\ tasks[s].value.t = "stat" /\ tasks[s].value.v.type = 1
    /\ \A i \in 1..Len(calls) :
           calls[i].name = getTypes
           => \E t \in TaskIds : tasks[t].fn = "fetchText" /\ JStr(tasks[t].arg) = calls[i].argument
    /\ \A r \in TaskIds :
           tasks[r].fn = "_readFile"
           => /\ Cardinality(StatThenFetchTasks(tasks[r].arg)) <= 1
              /\ ( tasks[r].pc = "fetchResults" /\ tasks[r].state # "running" )
                 => \E f \in StatThenFetchTasks(tasks[r].arg) :
                        /\ tasks[f].state = tasks[r].state
                        /\ tasks[f].value = tasks[r].value

\* two readFile calls on one path have both returned the text, fetched once
C14_TwoReadsOneFetch ==
    \E h, k \in TaskIds :
        /\ h # k
        /\ tasks[h].fn = "readFile" /\ tasks[k].fn = "readFile"
        /\ tasks[h].arg = tasks[k].arg
        /\ tasks[h].state = "fulfilled" /\ tasks[k].state = "fulfilled"
        /\ tasks[h].value.t = "string" /\ tasks[k].value = tasks[h].value
        /\ Cardinality(ContentCalls(getCdnPath(tasks[h].arg))) = 1


(***************************************************************************)
(* Claims about stat of a package root                                     *)
(***************************************************************************)

\* the tasks that got as far as asking for the listing of their module token
ListingAskers(modName) ==
    { u \in TaskIds : /\ tasks[u].fn \in { "_stat", "_readDirectory" }
                      /\ tasks[u].pc = "flat"
                      /\ resolvePackageName(tasks[u].arg).modName = modName }

\* C15: a completed _stat of a valid package with an empty sub-path answered a
\* Directory descriptor with size, ctime and mtime -1 and never asked for the
\* listing; the manifest cache has an entry for its module token, and a
\* manifest fetch for its package exists, only if another task asked.
C15_RootStatSkipsListing ==
    \A t \in TaskIds :
        LET r == resolvePackageName(tasks[t].arg)
        IN  ( /\ tasks[t].fn = "_stat" /\ tasks[t].state = "fulfilled"
              /\ ~Falsy(r.pkgName) /\ r.path = << >>
              /\ PackageValidated(t) )
            => /\ tasks[t].value =
                      [t |-> "stat", v |-> [type |-> 2, ctime |-> -1, mtime |-> -1, size |-> -1]]
               /\ t \notin ListingAskers(r.modName)
               /\ \A u \in TaskIds : tasks[u].fn = "flat" => tasks[u].by # t
               /\ r.modName \in DOMAIN flatResults => ListingAskers(r.modName) # {}
               /\ ( ManifestCalls(r.pkgName) # {} \/ ManifestImports(r.pkgName) # {} )
                  => \E m \in DOMAIN flatResults :
                         /\ resolvePackageName(m).pkgName = r.pkgName
                         /\ ListingAskers(m) # {}

\* the root of package p was reported a directory while nothing had asked for
\* the listing of p
C15_RootStatWithoutFetch ==
    \E t \in TaskIds :
        /\ tasks[t].fn = "_stat" /\ tasks[t].arg = << "p" >>
        /\ tasks[t].state = "fulfilled" /\ tasks[t].value = DirectoryStat
        /\ PackageValidated(t)
        /\ ManifestCalls(<< "p" >>) = {}
        /\ DOMAIN flatResults = {}


(***************************************************************************)
(* Claims about the module token                                           *)
(***************************************************************************)

\* C16 (the claim as stated): for every non-empty path a function resolves,
\* paths with an empty first segment included, the module token is non-empty.
C16_ModuleTokenNonEmpty ==
    \A t \in ResolvingTasks :
        tasks[t].arg # << >> => resolvePackageName(tasks[t].arg).modName # << >>


(***************************************************************************)
(* Nested validations: '@types/x' asks for x/package.json, whose read      *)
(* validates x in turn                                                     *)
(***************************************************************************)

ValidationStatUris ==
    { << "/", "n", "o", "d", "e", "_", "m", "o", "d", "u", "l", "e", "s", "/", "@", "t", "y", "p", "e", "s", "/", "t", "y", "p", "e", "s", "_", "_", "p", "/", "a", ".", "j", "s" >>,    \* /node_modules/@types/types__p/a.js
      << "/", "n", "o", "d", "e", "_", "m", "o", "d", "u", "l", "e", "s", "/", "@", "t", "y", "p", "e", "s", "/", "p", "/", "i", "n", "d", "e", "x", ".", "d", ".", "t", "s" >>,    \* /node_modules/@types/p/index.d.ts
      << "/", "n", "o", "d", "e", "_", "m", "o", "d", "u", "l", "e", "s", "/", "@", "t", "y", "p", "e", "s", "/", "v", "u", "e", "/", "a", ".", "j", "s" >> }    \* /node_modules/@types/vue/a.js
ValidationReadFileUris ==
    { << "/", "n", "o", "d", "e", "_", "m", "o", "d", "u", "l", "e", "s", "/", "p", "/", "p", "a", "c", "k", "a", "g", "e", ".", "j", "s", "o", "n" >>,    \* /node_modules/p/package.json
      << "/", "n", "o", "d", "e", "_", "m", "o", "d", "u", "l", "e", "s", "/", "@", "t", "y", "p", "e", "s", "/", "p", "/", "p", "a", "c", "k", "a", "g", "e", ".", "j", "s", "o", "n" >> }    \* /node_modules/@types/p/package.json

\* what host1's functions fulfil with here: a listing with /package.json, a
\* package.json text that declares types or none; failures come by timeout
ValidationResultsOf(job) ==
    IF Get(job.message, "name") = JStr(getTypesFlat)
    THEN { JObj([files |-> Listing1]) }
    ELSE { JStr(EmptyObjectText), JStr(TypesText) }

NextValidation ==
    \/ \E u \in ValidationStatUris : CallStat(u)
    \/ \E u \in ValidationReadFileUris : CallReadFile(u)
    \/ Step
    \/ \E c \in Ctx : Deliver(c)
    \/ \E i \in 1..Len(calls) : Timeout(i)
    \/ \E job \in jobs : \E result \in ValidationResultsOf(job) : FnResolve(job, result)
    \/ \E e \in 1..Len(exts) : \E v \in ExtValues(e) : ExtSettle(e, v[1], v[2])

\* the microtask queue is always drained (Step), an armed timer fires unless
\* it is cleared (line 73), and import() settles; nothing is assumed of the
\* responding contexts.  The first condition is WF_vars(Step) written out:
\* Step is enabled exactly when ready is not empty, and it always changes the
\* task it runs.
SpecValidation ==
    /\ InitFs
    /\ [][NextValidation]_vars
    /\ ([]<>(ready = << >>) \/ []<><<Step>>_vars)
    /\ WF_vars(\E i \in 1..Len(calls) : Timeout(i))
    /\ WF_vars(\E e \in 1..Len(exts) : \E v \in ExtValues(e) : ExtSettle(e, v[1], v[2]))

\* the task that task t is suspended on, 0 when it awaits no task
C17_AwaitedTask(t) ==
    IF tasks[t].state = "running" /\ tasks[t].wait.k = "task" THEN tasks[t].wait.id ELSE 0

\* the tasks reached from t along awaits, in at most n steps
RECURSIVE C17_AwaitChain(_, _)
C17_AwaitChain(t, n) ==
    IF n = 0 \/ C17_AwaitedTask(t) = 0 THEN { }
    ELSE { C17_AwaitedTask(t) } \cup C17_AwaitChain(C17_AwaitedTask(t), n - 1)

\* the '@types/' packages among the validations that validation t awaits
C17_NestedValidations(t) ==
    { u \in C17_AwaitChain(t, Len(tasks)) : tasks[u].fn = "isValidPackageName" }

C17_NoPromiseAwaitsItself ==
    \A t \in TaskIds :
        /\ t \notin C17_AwaitChain(t, Len(tasks))
        /\ tasks[t].fn = "isValidPackageName" =>
               \A u \in C17_NestedValidations(t) : Len(tasks[u].arg) < Len(tasks[t].arg)

C17_Running == \E t \in TaskIds : tasks[t].state = "running"

\* C17: no promise awaits itself, along any chain of awaits; a validation
\* nested in another one is of a shorter package name; and whenever a
\* function is running, every function comes to completion.
C17_ValidationTerminates ==
    /\ [] C17_NoPromiseAwaitsItself
    /\ C17_Running ~> Completed

\* a validation of '@types/types__p' awaits, two levels down, one of 'p',
\* and both complete
C17_NestedValidationCompleted ==
    \E t, u \in TaskIds :
        /\ tasks[t].fn = "isValidPackageName" /\ tasks[t].arg = S_types \o << "t", "y", "p", "e", "s", "_", "_", "p" >>
        /\ tasks[u].fn = "isValidPackageName" /\ tasks[u].arg = S_types \o << "p" >>
        /\ tasks[u].by > t
        /\ tasks[t].state = "fulfilled" /\ tasks[u].state = "fulfilled"
        /\ \E v \in TaskIds : tasks[v].fn = "statThenFetch" /\ tasks[v].state = "fulfilled"


(***************************************************************************)
(* Every call settles                                                      *)
(***************************************************************************)

\* the channel on its own, where a timer set by window.setTimeout (line 73)
\* fires unless it is cleared; nothing is assumed of message delivery, of
\* the responding contexts or of their functions
SpecSettles ==
    /\ Init
    /\ [][Next]_vars
    /\ WF_vars(\E i \in 1..MaxCalls : Timeout(i))

C18_NoEntryOnceSettled ==
    \A i \in 1..Len(calls) :
        calls[i].state # "pending" => i \notin callbacks[calls[i].ctx]

C18_Issued(i) == i <= Len(calls)
C18_Settled(i) == i <= Len(calls) /\ calls[i].state \in { "resolved", "rejected" }

\* C18: every call that execute issued on an open channel comes to be
\* resolved or rejected, whatever the order of deliveries, closes and timers;
\* and a settled call has no entry in the callbacks of its context.
C18_EveryCallSettles ==
    /\ [] C18_NoEntryOnceSettled
    /\ \A i \in 1..MaxCalls : C18_Issued(i) ~> C18_Settled(i)

\* a call whose context closed its channel before any answer came in has
\* been rejected by its timer
C18_SettledAfterClose ==
    \E i \in 1..Len(calls) :
        /\ ~channel[calls[i].ctx]
        /\ calls[i].state = "rejected" /\ calls[i].timer = "fired"
        /\ calls[i].dropped = 0
        /\ i \notin callbacks[calls[i].ctx]


(***************************************************************************)
(* Paths of one package under several version suffixes                     *)
(***************************************************************************)

\* uris of package p, asked for by stat and by readDirectory alike
VersionUris ==
    { << "/", "n", "o", "d", "e", "_", "m", "o", "d", "u", "l", "e", "s", "/", "p", "@", "1", "/", "a", ".", "j", "s" >>,    \* /node_modules/p@1/a.js
      << "/", "n", "o", "d", "e", "_", "m", "o", "d", "u", "l", "e", "s", "/", "p", "@", "2", "/", "a", ".", "j", "s" >>,    \* /node_modules/p@2/a.js
      << "/", "n", "o", "d", "e", "_", "m", "o", "d", "u", "l", "e", "s", "/", "p", "@", "1", "/", "l", "i", "b" >>,    \* /node_modules/p@1/lib
      << "/", "n", "o", "d", "e", "_", "m", "o", "d", "u", "l", "e", "s", "/", "p", "@", "2", "/", "l", "i", "b" >>,    \* /node_modules/p@2/lib
      << "/", "n", "o", "d", "e", "_", "m", "o", "d", "u", "l", "e", "s", "/", "p", "/", "l", "i", "b" >> }    \* /node_modules/p/lib

NextVersions ==
    \/ \E u \in VersionUris : CallStat(u)
    \/ \E u \in VersionUris : CallReadDirectory(u)
    \/ Step
    \/ \E c \in Ctx : Deliver(c)
    \/ \E i \in 1..Len(calls) : Timeout(i)
    \/ \E job \in jobs : \E result \in HostResultsOf(job) : FnResolve(job, result)

SpecVersions == InitFs /\ [][NextVersions]_vars

\* tasks t and u run the same function on paths that differ in the version
\* suffix of the module token alone
C19_VersionVariants(t, u) ==
    /\ tasks[t].fn \in { "_stat", "_readDirectory" } /\ tasks[u].fn = tasks[t].fn
    /\ tasks[t].by = 0 \/ tasks[tasks[t].by].fn = "stat"
    /\ tasks[u].by = 0 \/ tasks[tasks[u].by].fn = "stat"
    /\ resolvePackageName(tasks[t].arg).pkgName = resolvePackageName(tasks[u].arg).pkgName
    /\ resolvePackageName(tasks[t].arg).path = resolvePackageName(tasks[u].arg).path

\* C19: the only manifest ever asked for is that of the bare package name p,
\* it is asked for at most once over all version suffixes, and two stat (or
\* two readDirectory) calls on paths that differ in the version suffix alone,
\* once both have an outcome, have the same outcome.
C19_VersionsShareOneListing ==
    /\ \A i \in 1..Len(calls) :
           calls[i].name = getTypesFlat => calls[i].argument = JStr(<< "p" >>)
    /\ Cardinality(ManifestCalls(<< "p" >>)) <= 1
    /\ \A t, u \in TaskIds :
           ( C19_VersionVariants(t, u)
             /\ tasks[t].state # "running" /\ tasks[u].state # "running" )
           => /\ tasks[t].state = tasks[u].state
              /\ tasks[t].value = tasks[u].value

\* readDirectory of p@1/lib and of p@2/lib have both answered the entries of
\* lib, after a single manifest fetch
C19_TwoVersionsSameDirectory ==
    \E t, u \in TaskIds :
        /\ tasks[t].fn = "_readDirectory" /\ tasks[u].fn = "_readDirectory"
        /\ resolvePackageName(tasks[t].arg).modName = << "p", "@", "1" >>
        /\ resolvePackageName(tasks[u].arg).modName = << "p", "@", "2" >>
        /\ tasks[t].state = "fulfilled" /\ tasks[u].state = "fulfilled"
        /\ tasks[t].value = tasks[u].value
        /\ tasks[t].value.t = "array" /\ Len(tasks[t].value.v) >= 2
        /\ DOMAIN flatResults = { << "p", "@", "1" >>, << "p", "@", "2" >> }
        /\ Cardinality(ManifestCalls(<< "p" >>)) = 1


(***************************************************************************)
(* A registered function that throws                                       *)
(***************************************************************************)

\* the message this step queued for context d, if any: postMessage never
\* queues for the posting context, so a queue that grew was appended to
C20_Posted(d) ==
    IF Len(inbox'[d]) > Len(inbox[d]) THEN { inbox'[d][Len(inbox'[d])] } ELSE { }

C20_IsCallback(data) ==
    data.t = "json" /\ Get(data.v, "operation") = JStr(<< "callback" >>) /\ HasMeta(data.v)

\* data is the success callback of context c for the request of this invocation
C20_AnswersJob(data, job) ==
    /\ C20_IsCallback(data)
    /\ Get(data.v, "success") = JBool(TRUE)
    /\ Get(Get(data.v, "meta").v, "uid") = Get(Get(job.message, "meta").v, "uid")
    /\ Get(Get(data.v, "meta").v, "broadcaster") = JStr(<< "href", job.ctx >>)

\* C20: a success callback is queued only in the step in which the function
\* invoked for the request completes, by the invoking context and with the
\* request's uid; a step that ends an invocation either queues that callback
\* or, the function having thrown (or the channel being closed), queues
\* nothing and settles nothing; and a call is settled only by its timer or by
\* the delivery of a callback with its uid to its context.
C20_ThrowingFunctionAnswersNothing ==
    [][ /\ \A d \in Ctx : \A data \in C20_Posted(d) :
               ( C20_IsCallback(data) /\ Get(data.v, "success") = JBool(TRUE) )
               => \E job \in jobs \ jobs' : C20_AnswersJob(data, job) /\ d # job.ctx
        /\ \A job \in jobs \ jobs' :
               \/ /\ channel[job.ctx]
                  /\ \A d \in Ctx \ {job.ctx} :
                         channel[d] => \E data \in C20_Posted(d) : C20_AnswersJob(data, job)
               \/ inbox' = inbox /\ calls' = calls /\ callbacks' = callbacks
        /\ \A i \in 1..Len(calls) :
               ( calls[i].state = "pending" /\ calls'[i].state # "pending" )
               => \/ calls'[i].timer = "fired"
                     /\ calls'[i].value = JErr(BroadcastChannelTimeout)
                  \/ /\ inbox[calls[i].ctx] # << >>
                     /\ inbox'[calls[i].ctx] = Tail(inbox[calls[i].ctx])
                     /\ C12_IsCallbackFor(Head(inbox[calls[i].ctx]), i) ]_vars

\* no channel was ever closed and every message has been delivered: the
\* functions invoked for the call threw, no callback was posted (none settled
\* the call, none was dropped), and the call was rejected by its timer
C20_FunctionThrewCallTimedOut ==
    \E i \in 1..Len(calls) :
        /\ closes = 0 /\ jobs = {} /\ \A c \in Ctx : inbox[c] = << >>
        /\ \E c \in Ctx : calls[i].name \in functions[c]
        /\ calls[i].state = "rejected" /\ calls[i].timer = "fired"
        /\ calls[i].value = JErr(BroadcastChannelTimeout)
        /\ calls[i].dropped = 0

====
